------------------------- MODULE ServiceDesk_proofs -------------------------
(***************************************************************************)
(* Proofs about the ticket of ServiceDesk, its two SLA clocks, and the two *)
(* jobs beside it, for any workflow, any targets, and any number of ticks  *)
(* of the jobs that overlap.                                               *)
(***************************************************************************)
EXTENDS ServiceDesk, TLAPS

ClockStates == {"none", "running", "warning", "paused", "met", "breached"}
ClockRows == [state : ClockStates, due : Nat, pausedAt : Nat]
Dues == UNION {[S -> Nat] : S \in SUBSET Metrics}
SweptRows == UNION {[S -> [state : {"running", "warning"}, due : Nat]] : S \in SUBSET Metrics}
Pcs == {"idle", "transition", "resuming", "assign", "resume", "fulfil", "decide", "merge", "mail"}
RequestRecords == [pc : Pcs, read : Statuses, to : Statuses, due : Dues]
TicketRows == [status : Statuses, resolved : {"no", "recently", "longAgo"}, closed : BOOLEAN]

DeskTypeOK ==
  /\ now \in Nat /\ now <= MaxTime
  /\ ticket \in TicketRows /\ clock \in [Metrics -> ClockRows]
  /\ req \in [Requests -> RequestRecords] /\ sweep \in [Sweepers -> SweptRows]
  /\ closer \in [Closers -> {"idle", "candidate", "locked"}]

-----------------------------------------------------------------------------
(* What is known of a due time at t: it is no later than the target and    *)
(* the time that has passed, and no earlier than the target, or past the   *)
(* horizon.                                                                *)
DueOK(m, due, t) == due <= Target[m] + t /\ (due < Target[m] => due > MaxTime)

(* Of a row: what was paused counts the time from then on only once.       *)
RowOK(m, row, t) ==
  row.state # "none" =>
    /\ DueOK(m, row.due, t)
    /\ row.state = "paused" => row.pausedAt <= t /\ row.due <= Target[m] + row.pausedAt
    /\ row.state = "breached" => t >= Target[m]

(* Of what a request or a sweep has read of the rows: they are there.      *)
DuesOK(due, c, t) == \A m \in DOMAIN due : c[m].state # "none" /\ DueOK(m, due[m], t)
SweptOK(rows, c, t) == \A m \in DOMAIN rows : c[m].state # "none" /\ DueOK(m, rows[m].due, t)

ClockInv ==
  /\ DeskTypeOK
  /\ \A m \in Metrics : RowOK(m, clock[m], now)
  /\ \A r \in Requests : DuesOK(req[r].due, clock, now)
  /\ \A w \in Sweepers : SweptOK(sweep[w], clock, now)

-----------------------------------------------------------------------------
(* A due time past the horizon is cut off there.                           *)
LEMMA CappedIs ==
  ASSUME NEW due \in Nat
  PROVE  Capped(due) \in Nat /\ Capped(due) <= due /\ (Capped(due) < due => Capped(due) > MaxTime)
BY TicketAssumption DEF Capped

(* What a resumption gives the paused clocks.                              *)
LEMMA ResumedIs ==
  ASSUME ClockInv
  PROVE  ResumedRows(clock, now) \in Dues /\ DuesOK(ResumedRows(clock, now), clock, now)
<1> DEFINE S == {m \in Metrics : clock[m].state = "paused"}
           given(m) == Capped(clock[m].due + (now - clock[m].pausedAt))
<1>1. ASSUME NEW m \in S
      PROVE  given(m) \in Nat /\ DueOK(m, given(m), now) /\ clock[m].state # "none"
  <2>1. /\ m \in Metrics /\ clock[m].due \in Nat /\ clock[m].pausedAt \in Nat /\ now \in Nat
        /\ clock[m].state = "paused" /\ Target[m] \in Nat /\ MaxTime \in Nat
    BY TicketAssumption DEF ClockInv, DeskTypeOK, ClockRows
  <2>2. /\ clock[m].pausedAt <= now /\ clock[m].due <= Target[m] + clock[m].pausedAt
        /\ clock[m].due < Target[m] => clock[m].due > MaxTime
    BY <2>1 DEF ClockInv, RowOK, DueOK
  <2> DEFINE due == clock[m].due + (now - clock[m].pausedAt)
  <2>3. due \in Nat /\ clock[m].due <= due /\ due <= Target[m] + now
    BY <2>1, <2>2
  <2> HIDE DEF due
  <2>4. Capped(due) \in Nat /\ Capped(due) <= due /\ (Capped(due) < due => Capped(due) > MaxTime)
    BY <2>3, CappedIs
  <2>5. DueOK(m, Capped(due), now)
    BY <2>1, <2>2, <2>3, <2>4 DEF DueOK
  <2> QED  BY <2>1, <2>4, <2>5 DEF due
<1>2. ResumedRows(clock, now) = [m \in S |-> given(m)]
  BY DEF ResumedRows
<1> HIDE DEF given, S
<1>3. [m \in S |-> given(m)] \in [S -> Nat] /\ S \in SUBSET Metrics
  BY <1>1 DEF S
<1> QED  BY <1>1, <1>2, <1>3 DEF Dues, DuesOK

(* What a step may make of a clock: no row appears or goes, and each is as *)
(* it should be.                                                           *)
ClockMoves(c) ==
  /\ c \in [Metrics -> ClockRows]
  /\ \A m \in Metrics : RowOK(m, c[m], now) /\ (clock[m].state # "none" => c[m].state # "none")

LEMMA RowIs ==
  ASSUME ClockInv, NEW m \in Metrics, NEW state \in ClockStates
  PROVE  /\ clock[m] \in ClockRows /\ clock[m].due \in Nat /\ clock[m].pausedAt \in Nat /\ clock[m].state \in ClockStates
         /\ RowOK(m, clock[m], now) /\ now \in Nat /\ Target[m] \in Nat \ {0} /\ MaxTime \in Nat
         /\ \A due \in Nat : /\ Row(state, due) \in ClockRows /\ Row(state, due).state = state
                             /\ Row(state, due).due = due
BY TicketAssumption DEF ClockInv, DeskTypeOK, ClockRows, Row, Never

LEMMA MetMoves ==
  ASSUME ClockInv, NEW c, ClockMoves(c)
  PROVE  ClockMoves(MarkResponseMet(c)) /\ ClockMoves(MarkResolutionMet(c))
<1>1. \A m \in Metrics : /\ c[m] \in ClockRows /\ c[m].due \in Nat /\ c[m].pausedAt \in Nat /\ RowOK(m, c[m], now)
                         /\ clock[m].state # "none" => c[m].state # "none"
  BY DEF ClockMoves, ClockRows
<1>2. ASSUME NEW m \in Metrics, c[m].state \in {"running", "warning", "paused"}
      PROVE  ClockMoves([c EXCEPT ![m] = Row("met", c[m].due)])
  <2> DEFINE row == Row("met", c[m].due)
  <2>1. row \in ClockRows /\ row.state = "met" /\ row.due = c[m].due
    BY <1>1, RowIs DEF ClockStates
  <2>2. RowOK(m, row, now)
    BY <1>1, <1>2, <2>1 DEF RowOK
  <2>3. c \in [Metrics -> ClockRows]
    BY DEF ClockMoves
  <2> HIDE DEF row
  <2>4. ClockMoves([c EXCEPT ![m] = row])
    BY <1>1, <2>1, <2>2, <2>3 DEF ClockMoves
  <2> QED  BY <2>4 DEF row
<1>3. "response" \in Metrics /\ "resolution" \in Metrics
  BY DEF Metrics
<1> QED  BY <1>2, <1>3 DEF MarkResponseMet, MarkResolutionMet

LEMMA PauseMoves ==
  ASSUME ClockInv, NEW c, ClockMoves(c)
  PROVE  ClockMoves(PauseTicketSlas(c, now))
<1> SUFFICES ASSUME NEW m \in Metrics, c[m].state \in {"running", "warning"}
             PROVE  LET row == [c[m] EXCEPT !.state = "paused", !.pausedAt = now] IN
                    row \in ClockRows /\ row.state = "paused" /\ RowOK(m, row, now)
  BY DEF ClockMoves, PauseTicketSlas
<1>1. c[m] \in ClockRows /\ c[m].due \in Nat /\ RowOK(m, c[m], now) /\ now \in Nat
  BY DEF ClockMoves, ClockRows, ClockInv, DeskTypeOK
<1> DEFINE row == [c[m] EXCEPT !.state = "paused", !.pausedAt = now]
<1>2. row \in ClockRows /\ row.state = "paused" /\ row.pausedAt = now /\ row.due = c[m].due
  BY <1>1 DEF ClockRows, ClockStates
<1> HIDE DEF row
<1>3. RowOK(m, row, now)
  BY <1>1, <1>2 DEF RowOK, DueOK
<1> QED  BY <1>2, <1>3 DEF row

LEMMA ResumeMoves ==
  ASSUME ClockInv, NEW due \in Dues, DuesOK(due, clock, now)
  PROVE  ClockMoves(ResumeRows(clock, due))
<1>1. ASSUME NEW m \in Metrics, m \in DOMAIN due
      PROVE  LET row == Row("running", due[m]) IN row \in ClockRows /\ row.state = "running" /\ RowOK(m, row, now)
  <2> DEFINE row == Row("running", due[m])
  <2>1. due[m] \in Nat /\ DueOK(m, due[m], now)
    BY <1>1 DEF Dues, DuesOK
  <2>2. row \in ClockRows /\ row.state = "running" /\ row.due = due[m]
    BY <2>1, RowIs DEF ClockStates
  <2> HIDE DEF row
  <2>3. RowOK(m, row, now)
    BY <2>1, <2>2 DEF RowOK
  <2> QED  BY <2>2, <2>3 DEF row
<1>2. \A m \in Metrics : clock[m] \in ClockRows /\ RowOK(m, clock[m], now)
  BY DEF ClockInv, DeskTypeOK
<1> QED  BY <1>1, <1>2 DEF ClockMoves, ResumeRows

LEMMA TransitionMoves ==
  ASSUME ClockInv, NEW from, NEW to
  PROVE  ClockMoves(TransitionClocks(clock, from, to))
<1>1. ClockMoves(clock)
  BY DEF ClockMoves, ClockInv, DeskTypeOK
<1> DEFINE stopped   == IF to = "resolved" THEN MarkResolutionMet(clock) ELSE clock
           responded == IF from \in Intake /\ to \notin Intake THEN MarkResponseMet(stopped) ELSE stopped
<1>2. ClockMoves(stopped)
  BY <1>1, MetMoves
<1> HIDE DEF stopped
<1>3. ClockMoves(responded)
  BY <1>2, MetMoves
<1> HIDE DEF responded
<1>4. ClockMoves(PauseTicketSlas(responded, now))
  BY <1>3, PauseMoves
<1> QED  BY <1>3, <1>4 DEF TransitionClocks, stopped, responded
-----------------------------------------------------------------------------
LEMMA IdleIs ==
  /\ Idle \in RequestRecords /\ Idle.due = <<>> /\ Idle.pc = "idle" /\ IdleSweep \in SweptRows
  /\ \A c, t : DuesOK(<<>>, c, t) /\ SweptOK(<<>>, c, t)
<1>1. /\ DOMAIN <<>> = {} /\ {} \in SUBSET Metrics
      /\ <<>> \in [{} -> Nat] /\ <<>> \in [{} -> [state : {"running", "warning"}, due : Nat]]
  OBVIOUS
<1>2. <<>> \in Dues /\ <<>> \in SweptRows
  BY <1>1, Zenon DEF Dues, SweptRows
<1> QED  BY <1>1, <1>2 DEF Idle, IdleSweep, RequestRecords, Pcs, Statuses, DuesOK, SweptOK

LEMMA StampedIs ==
  ASSUME NEW row \in TicketRows, NEW from \in Statuses, NEW to \in Statuses
  PROVE  StampedRow(row, from, to) \in TicketRows
BY DEF StampedRow, TicketRows

(* A step that moves the clocks as it may, and leaves the rest as it       *)
(* should be, keeps the invariant.                                         *)
LEMMA ClockInvKept ==
  ASSUME ClockInv, now' = now, ClockMoves(clock'), ticket' \in TicketRows,
         req' \in [Requests -> RequestRecords], \A r \in Requests : DuesOK(req'[r].due, clock, now),
         sweep' \in [Sweepers -> SweptRows], \A w \in Sweepers : SweptOK(sweep'[w], clock, now),
         closer' \in [Closers -> {"idle", "candidate", "locked"}]
  PROVE  ClockInv'
<1>1. DeskTypeOK' /\ \A m \in Metrics : RowOK(m, clock'[m], now')
  BY DEF ClockInv, DeskTypeOK, ClockMoves
<1>2. ASSUME NEW r \in Requests
      PROVE  DuesOK(req'[r].due, clock', now')
  <2>1. DOMAIN req'[r].due \subseteq Metrics
    BY DEF RequestRecords, Dues
  <2> QED  BY <2>1 DEF ClockMoves, DuesOK
<1>3. ASSUME NEW w \in Sweepers
      PROVE  SweptOK(sweep'[w], clock', now')
  <2>1. DOMAIN sweep'[w] \subseteq Metrics
    BY DEF SweptRows
  <2> QED  BY <2>1 DEF ClockMoves, SweptOK
<1> QED  BY <1>1, <1>2, <1>3 DEF ClockInv

(* The same for a request's step, which writes at most its own record.     *)
LEMMA RequestKeeps ==
  ASSUME ClockInv, NEW r \in Requests, NEW record \in RequestRecords, DuesOK(record.due, clock, now),
         req' = [req EXCEPT ![r] = record], now' = now, UNCHANGED jobVars,
         ClockMoves(clock'), ticket' \in TicketRows
  PROVE  ClockInv'
<1>1. /\ req' \in [Requests -> RequestRecords] /\ \A q \in Requests : DuesOK(req'[q].due, clock, now)
      /\ sweep' = sweep /\ closer' = closer
  BY DEF ClockInv, DeskTypeOK, jobVars
<1> QED  BY <1>1, ClockInvKept DEF ClockInv, DeskTypeOK

LEMMA ClockInvInit == DeskInit => ClockInv
<1> SUFFICES ASSUME DeskInit PROVE ClockInv
  OBVIOUS
<1>1. ticket \in TicketRows
  BY DEF DeskInit, TicketInit, TicketRows, Statuses
<1>2. /\ clock \in [Metrics -> ClockRows]
      /\ \A m \in Metrics : clock[m].state # "none" => clock[m].state = "running" /\ clock[m].due = Target[m]
  BY TicketAssumption DEF DeskInit, TicketInit, ClockRows, ClockStates, Row, Never
<1>3. req \in [Requests -> RequestRecords] /\ \A r \in Requests : req[r].due = <<>>
  BY IdleIs DEF DeskInit, TicketInit
<1>4. sweep \in [Sweepers -> SweptRows] /\ \A w \in Sweepers : sweep[w] = <<>>
  BY IdleIs DEF DeskInit, IdleSweep
<1>5. closer \in [Closers -> {"idle", "candidate", "locked"}] /\ now = 0 /\ MaxTime \in Nat
  BY TicketAssumption DEF DeskInit, TicketInit
<1>6. DeskTypeOK
  BY <1>1, <1>2, <1>3, <1>4, <1>5 DEF DeskTypeOK
<1>7. \A m \in Metrics : RowOK(m, clock[m], now)
  BY <1>2, <1>5, TicketAssumption DEF RowOK, DueOK
<1>8. /\ \A r \in Requests : DuesOK(req[r].due, clock, now)
      /\ \A w \in Sweepers : SweptOK(sweep[w], clock, now)
  BY <1>3, <1>4, IdleIs
<1> QED  BY <1>6, <1>7, <1>8 DEF ClockInv

LEMMA TimePasses ==
  ASSUME ClockInv, Tick, UNCHANGED jobVars
  PROVE  ClockInv'
<1>1. now \in Nat /\ now' = now + 1 /\ MaxTime \in Nat /\ now' <= MaxTime /\ Target \in [Metrics -> Nat \ {0}]
  BY TicketAssumption DEF Tick, ClockInv, DeskTypeOK
<1>2. clock' = clock /\ req' = req /\ sweep' = sweep /\ closer' = closer /\ ticket' = ticket
  BY DEF Tick, jobVars
<1>3. DeskTypeOK'
  BY <1>1, <1>2 DEF ClockInv, DeskTypeOK
<1>4. \A m \in Metrics, due \in Nat : DueOK(m, due, now) => DueOK(m, due, now')
  BY <1>1 DEF DueOK
<1>5. \A m \in Metrics : RowOK(m, clock[m], now')
  <2> TAKE m \in Metrics
  <2>1. clock[m] \in ClockRows /\ RowOK(m, clock[m], now) /\ clock[m].due \in Nat /\ clock[m].pausedAt \in Nat
    BY DEF ClockInv, DeskTypeOK, ClockRows
  <2> QED  BY <1>1, <1>4, <2>1 DEF RowOK
<1>6. \A r \in Requests : DuesOK(req[r].due, clock, now')
  <2> TAKE r \in Requests
  <2>1. req[r].due \in Dues /\ DuesOK(req[r].due, clock, now)
    BY DEF ClockInv, DeskTypeOK, RequestRecords
  <2>2. \A m \in DOMAIN req[r].due : m \in Metrics /\ req[r].due[m] \in Nat
    BY <2>1 DEF Dues
  <2> QED  BY <1>4, <2>1, <2>2 DEF DuesOK
<1>7. \A w \in Sweepers : SweptOK(sweep[w], clock, now')
  <2> TAKE w \in Sweepers
  <2>1. sweep[w] \in SweptRows /\ SweptOK(sweep[w], clock, now)
    BY DEF ClockInv, DeskTypeOK
  <2>2. \A m \in DOMAIN sweep[w] : m \in Metrics /\ sweep[w][m].due \in Nat
    BY <2>1 DEF SweptRows
  <2> QED  BY <1>4, <2>1, <2>2 DEF SweptOK
<1> QED  BY <1>2, <1>3, <1>5, <1>6, <1>7 DEF ClockInv
-----------------------------------------------------------------------------
(* The requests *)

LEMMA StateIs ==
  ASSUME ClockInv
  PROVE  /\ ClockMoves(clock) /\ ticket \in TicketRows /\ ticket.status \in Statuses /\ now \in Nat
         /\ \A r \in Requests : /\ req[r] \in RequestRecords /\ req[r].read \in Statuses /\ req[r].to \in Statuses
                                /\ req[r].due \in Dues /\ DuesOK(req[r].due, clock, now)
         /\ req \in [Requests -> RequestRecords] /\ sweep \in [Sweepers -> SweptRows]
         /\ closer \in [Closers -> {"idle", "candidate", "locked"}]
         /\ \A w \in Sweepers : SweptOK(sweep[w], clock, now)
<1>1. ClockMoves(clock)
  BY DEF ClockMoves, ClockInv, DeskTypeOK
<1> QED  BY <1>1 DEF ClockInv, DeskTypeOK, TicketRows, RequestRecords

(* A row whose status alone is written.                                    *)
LEMMA StatusWritten ==
  ASSUME NEW row \in TicketRows, NEW s \in Statuses
  PROVE  [row EXCEPT !.status = s] \in TicketRows
BY DEF TicketRows

LEMMA ReadsKeep ==
  ASSUME ClockInv, NEW r \in Requests,
         (\E to \in Statuses : TransitionRead(r, to)) \/ AssignRead(r) \/ ResumeSlaRead(r) \/ OtherRead(r),
         UNCHANGED jobVars
  PROVE  ClockInv'
<1>1. /\ Idle \in RequestRecords /\ Idle.due = <<>> /\ DuesOK(<<>>, clock, now)
      /\ ResumedRows(clock, now) \in Dues /\ DuesOK(ResumedRows(clock, now), clock, now)
      /\ ticket.status \in Statuses
  BY IdleIs, ResumedIs, StateIs
<1>2. PICK record : /\ record \in RequestRecords /\ DuesOK(record.due, clock, now)
                    /\ req' = [req EXCEPT ![r] = record] /\ UNCHANGED <<now, ticket, clock, rowLock>>
  <2>1. ASSUME NEW to \in Statuses, TransitionRead(r, to)
        PROVE  LET record == [Idle EXCEPT !.pc = "transition", !.read = ticket.status, !.to = to] IN
               /\ record \in RequestRecords /\ record.due = <<>> /\ req' = [req EXCEPT ![r] = record]
               /\ UNCHANGED <<now, ticket, clock, rowLock>>
    BY <1>1, <2>1 DEF TransitionRead, RequestRecords, Pcs
  <2>2. ASSUME AssignRead(r)
        PROVE  LET record == [Idle EXCEPT !.pc = "assign", !.read = ticket.status] IN
               /\ record \in RequestRecords /\ record.due = <<>> /\ req' = [req EXCEPT ![r] = record]
               /\ UNCHANGED <<now, ticket, clock, rowLock>>
    BY <1>1, <2>2 DEF AssignRead, RequestRecords, Pcs
  <2>3. ASSUME ResumeSlaRead(r)
        PROVE  LET record == [Idle EXCEPT !.pc = "resume", !.due = ResumedRows(clock, now)] IN
               /\ record \in RequestRecords /\ record.due = ResumedRows(clock, now)
               /\ req' = [req EXCEPT ![r] = record] /\ UNCHANGED <<now, ticket, clock, rowLock>>
    BY <1>1, <2>3 DEF ResumeSlaRead, RequestRecords, Pcs
  <2>4. ASSUME NEW pc \in {"fulfil", "decide", "merge", "mail"}, Begins(r, pc)
        PROVE  LET record == [Idle EXCEPT !.pc = pc] IN
               /\ record \in RequestRecords /\ record.due = <<>> /\ req' = [req EXCEPT ![r] = record]
               /\ UNCHANGED <<now, ticket, clock, rowLock>>
    BY <1>1, <2>4 DEF Begins, RequestRecords, Pcs
  <2>5. OtherRead(r) => \E pc \in {"fulfil", "decide", "merge", "mail"} : Begins(r, pc)
    BY DEF OtherRead
  <2> QED  BY <1>1, <2>1, <2>2, <2>3, <2>4, <2>5
<1>3. now' = now /\ ClockMoves(clock') /\ ticket' \in TicketRows
  BY <1>2, StateIs DEF ClockMoves
<1> QED  BY <1>2, <1>3, RequestKeeps

LEMMA TransitionsKeep ==
  ASSUME ClockInv, NEW r \in Requests, TransitionWrite(r) \/ TransitionLock(r) \/ TransitionCommit(r),
         UNCHANGED jobVars
  PROVE  ClockInv'
<1>1. /\ Idle \in RequestRecords /\ DuesOK(Idle.due, clock, now)
      /\ StampedRow(ticket, req[r].read, req[r].to) \in TicketRows
  BY IdleIs, StateIs, StampedIs
<1>2. CASE TransitionWrite(r)
  <2>1. ClockMoves(TransitionClocks(clock, req[r].read, req[r].to))
    BY TransitionMoves
  <2>2. ClockMoves(clock')
    BY <1>2, <2>1 DEF TransitionWrite
  <2> QED  BY <1>1, <1>2, <2>2, RequestKeeps DEF TransitionWrite
<1>3. CASE TransitionCommit(r)
  <2>1. ClockMoves(ResumeRows(clock, req[r].due))
    BY ResumeMoves, StateIs
  <2>2. ClockMoves(clock')
    BY <1>3, <2>1 DEF TransitionCommit
  <2> QED  BY <1>1, <1>3, <2>2, RequestKeeps DEF TransitionCommit
<1>4. CASE TransitionLock(r)
  <2> DEFINE record == [req[r] EXCEPT !.pc = "resuming", !.due = ResumedRows(clock, now)]
  <2>1. ResumedRows(clock, now) \in Dues /\ DuesOK(ResumedRows(clock, now), clock, now) /\ req[r] \in RequestRecords
    BY ResumedIs, StateIs
  <2>2. record \in RequestRecords /\ DuesOK(record.due, clock, now)
    BY <2>1 DEF RequestRecords, Pcs
  <2>3. req' = [req EXCEPT ![r] = record]
    BY <1>4, StateIs DEF TransitionLock
  <2>4. now' = now /\ ClockMoves(clock') /\ ticket' \in TicketRows
    BY <1>4, StateIs DEF TransitionLock, ClockMoves
  <2> HIDE DEF record
  <2> QED  BY <2>2, <2>3, <2>4, RequestKeeps
<1> QED  BY <1>2, <1>3, <1>4

LEMMA WritesKeep ==
  ASSUME ClockInv, NEW r \in Requests,
         \/ \E hasAgent \in BOOLEAN : AssignWrite(r, hasAgent)
         \/ ResumeSlaWrite(r) \/ FulfilWrite(r) \/ DecideWrite(r) \/ MergeWrite(r) \/ MailWrite(r) \/ RequestAbort(r),
         UNCHANGED jobVars
  PROVE  ClockInv'
<1>1. /\ Idle \in RequestRecords /\ DuesOK(Idle.due, clock, now)
      /\ ticket \in TicketRows /\ ticket.status \in Statuses /\ req[r].read \in Statuses
      /\ ClockMoves(clock) /\ ClockMoves(MarkResponseMet(clock)) /\ ClockMoves(MarkResolutionMet(clock))
      /\ ClockMoves(ResumeRows(clock, req[r].due))
  BY IdleIs, StateIs, MetMoves, ResumeMoves
<1>2. now' = now /\ req' = [req EXCEPT ![r] = Idle]
  BY DEF AssignWrite, ResumeSlaWrite, FulfilWrite, DecideWrite, MergeWrite, MailWrite, RequestAbort, Writes
<1>3. clock' \in {clock, MarkResponseMet(clock), MarkResolutionMet(clock), ResumeRows(clock, req[r].due)}
  BY DEF AssignWrite, ResumeSlaWrite, FulfilWrite, DecideWrite, MergeWrite, MailWrite, RequestAbort
<1>4. ClockMoves(clock')
  BY <1>1, <1>3
<1>5. ticket' \in TicketRows
  <2>1. "assigned" \in Statuses /\ "resolved" \in Statuses /\ "closed" \in Statuses /\ "reopened" \in Statuses
    BY DEF Statuses
  <2>2. CASE \E hasAgent \in BOOLEAN : AssignWrite(r, hasAgent)
    BY <1>1, <2>1, <2>2, StatusWritten DEF AssignWrite
  <2>3. CASE FulfilWrite(r) \/ DecideWrite(r) \/ MergeWrite(r)
    BY <1>1, <2>1, <2>3 DEF FulfilWrite, DecideWrite, MergeWrite, CloseById, TicketRows
  <2>4. CASE MailWrite(r)
    BY <2>1, <2>4 DEF MailWrite, TicketRows
  <2>5. CASE ResumeSlaWrite(r) \/ RequestAbort(r)
    BY <1>1, <2>5 DEF ResumeSlaWrite, RequestAbort
  <2> QED  BY <2>2, <2>3, <2>4, <2>5
<1> QED  BY <1>1, <1>2, <1>4, <1>5, RequestKeeps

LEMMA OneStatementKeeps ==
  ASSUME ClockInv, Escalate \/ Reply \/ PauseSla \/ RuleChangesStatus \/ RuleReopens \/ RuleCloses, UNCHANGED jobVars
  PROVE  ClockInv'
<1>1. ClockMoves(clock) /\ ClockMoves(MarkResponseMet(clock)) /\ ClockMoves(PauseTicketSlas(clock, now))
  BY StateIs, MetMoves, PauseMoves
<1>2. clock' \in {clock, MarkResponseMet(clock), PauseTicketSlas(clock, now)}
  BY DEF Escalate, Reply, PauseSla, RuleChangesStatus, RuleReopens, RuleCloses
<1>3. ClockMoves(clock') /\ now' = now /\ req' = req /\ sweep' = sweep /\ closer' = closer
  BY <1>1, <1>2 DEF Escalate, Reply, PauseSla, RuleChangesStatus, RuleReopens, RuleCloses, jobVars
<1>4. ticket' \in TicketRows
  <2>1. ticket \in TicketRows /\ {"assigned", "reopened", "closed"} \subseteq Statuses
    BY StateIs DEF Statuses
  <2>2. CASE RuleCloses
    BY <2>1, <2>2 DEF RuleCloses, CloseById, TicketRows
  <2>3. CASE Escalate \/ RuleChangesStatus \/ RuleReopens
    BY <2>1, <2>3, StateIs, StatusWritten DEF Escalate, RuleChangesStatus, RuleReopens
  <2> QED  BY <2>1, <2>2, <2>3 DEF Reply, PauseSla
<1> QED  BY <1>3, <1>4, StateIs, ClockInvKept

(* The sweeper writes what it made of the row it selected: what it calls   *)
(* breached is past its due time, and so past its target.                  *)
LEMMA SweepsKeep ==
  ASSUME ClockInv, NEW w \in Sweepers, SweeperStep(w)
  PROVE  ClockInv'
<1>1. CASE SweepSelect(w)
  <2> DEFINE open == {m \in Metrics : clock[m].state \in {"running", "warning"}}
             rows == [m \in open |-> [state |-> clock[m].state, due |-> clock[m].due]]
  <2>1. \A m \in open : /\ m \in Metrics /\ clock[m].state \in {"running", "warning"} /\ clock[m].due \in Nat
                        /\ DueOK(m, clock[m].due, now)
    BY DEF ClockInv, DeskTypeOK, ClockRows, RowOK
  <2>2. rows \in SweptRows /\ SweptOK(rows, clock, now)
    <3>1. open \in SUBSET Metrics /\ rows \in [open -> [state : {"running", "warning"}, due : Nat]]
      BY <2>1
    <3>2. \A m \in DOMAIN rows : clock[m].state # "none" /\ DueOK(m, rows[m].due, now)
      BY <2>1
    <3> HIDE DEF rows, open
    <3> QED  BY <3>1, <3>2 DEF SweptRows, SweptOK
  <2>3. sweep' = [sweep EXCEPT ![w] = rows] /\ UNCHANGED <<ticketVars, closer>>
    BY <1>1 DEF SweepSelect
  <2> HIDE DEF rows
  <2>4. sweep' \in [Sweepers -> SweptRows] /\ \A v \in Sweepers : SweptOK(sweep'[v], clock, now)
    BY <2>2, <2>3, StateIs
  <2>5. ClockMoves(clock') /\ now' = now /\ ticket' = ticket /\ req' = req /\ closer' = closer
    BY <2>3, StateIs DEF ticketVars
  <2> QED  BY <2>4, <2>5, StateIs, ClockInvKept
<1>2. CASE SweepRow(w)
  <2> DEFINE rows == sweep[w]
             m    == NextRow(rows)
             next == EvaluateState(rows[m], now)
  <2>1. /\ rows \in SweptRows /\ SweptOK(rows, clock, now) /\ DOMAIN rows \in SUBSET Metrics /\ DOMAIN rows # {}
        /\ sweep' = [sweep EXCEPT ![w] = Drop(rows, m)] /\ UNCHANGED <<now, ticket, req, closer>>
        /\ clock' = IF next = rows[m].state THEN clock ELSE [clock EXCEPT ![m] = Row(next, clock[m].due)]
    BY <1>2, StateIs DEF SweepRow, SweptRows
  <2>2. m \in DOMAIN rows /\ m \in Metrics
    BY <2>1 DEF NextRow, Metrics
  <2> HIDE DEF m
  <2>3. /\ rows[m].state \in {"running", "warning"} /\ rows[m].due \in Nat
        /\ clock[m].state # "none" /\ DueOK(m, rows[m].due, now)
    BY <2>1, <2>2 DEF SweptRows, SweptOK
  <2> HIDE DEF rows
  <2>4. next \in {"running", "warning", "breached"} /\ (next = "breached" => now >= rows[m].due)
    BY <2>3 DEF EvaluateState
  <2> HIDE DEF next
  <2>5. next = "breached" => now >= Target[m]
    <3>1. now \in Nat /\ now <= MaxTime /\ MaxTime \in Nat /\ Target[m] \in Nat
      BY <2>2, TicketAssumption DEF ClockInv, DeskTypeOK
    <3> QED  BY <2>3, <2>4, <3>1 DEF DueOK
  <2> DEFINE row == Row(next, clock[m].due)
  <2>6. row \in ClockRows /\ row.state = next /\ row.due = clock[m].due /\ RowOK(m, clock[m], now)
    BY <2>2, <2>4, RowIs DEF ClockStates
  <2> HIDE DEF row
  <2>7. RowOK(m, row, now)
    BY <2>3, <2>4, <2>5, <2>6 DEF RowOK
  <2>8. ClockMoves([clock EXCEPT ![m] = row])
    BY <2>2, <2>4, <2>6, <2>7, StateIs DEF ClockMoves
  <2>9. clock' = clock \/ clock' = [clock EXCEPT ![m] = row]
    BY <2>1 DEF row
  <2>10. ClockMoves(clock')
    BY <2>8, <2>9, StateIs
  <2>11. Drop(rows, m) \in SweptRows /\ SweptOK(Drop(rows, m), clock, now)
    BY <2>1 DEF Drop, SweptRows, SweptOK
  <2>12. sweep' \in [Sweepers -> SweptRows] /\ \A v \in Sweepers : SweptOK(sweep'[v], clock, now)
    BY <2>1, <2>11, StateIs
  <2> QED  BY <2>1, <2>10, <2>12, StateIs, ClockInvKept
<1> QED  BY <1>1, <1>2 DEF SweeperStep

LEMMA ClosersKeep ==
  ASSUME ClockInv, NEW c \in Closers, CloserStep(c) \/ CloserFails(c)
  PROVE  ClockInv'
<1>1. now' = now /\ req' = req /\ sweep' = sweep
  BY DEF CloserStep, CloserSelect, CloserLock, CloserCommit, CloserFails, ticketVars
<1>2. closer' \in [Closers -> {"idle", "candidate", "locked"}]
  BY StateIs DEF CloserStep, CloserSelect, CloserLock, CloserCommit, CloserFails
<1>3. ClockMoves(clock')
  <2>1. ClockMoves(clock) /\ ClockMoves(TransitionClocks(clock, ticket.status, "closed"))
    BY StateIs, TransitionMoves
  <2>2. clock' = clock \/ clock' = TransitionClocks(clock, ticket.status, "closed")
    BY DEF CloserStep, CloserSelect, CloserLock, CloserCommit, CloserFails, ticketVars
  <2> QED  BY <2>1, <2>2
<1>4. ticket' \in TicketRows
  <2>1. StampedRow(ticket, ticket.status, "closed") \in TicketRows
    BY StateIs, StampedIs DEF Statuses
  <2>2. ticket' = ticket \/ ticket' = StampedRow(ticket, ticket.status, "closed")
    BY DEF CloserStep, CloserSelect, CloserLock, CloserCommit, CloserFails, ticketVars
  <2> QED  BY <2>1, <2>2, StateIs
<1> QED  BY <1>1, <1>2, <1>3, <1>4, StateIs, ClockInvKept

LEMMA ClockInvStep == ClockInv /\ [DeskNext]_deskVars => ClockInv'
<1> SUFFICES ASSUME ClockInv, [DeskNext]_deskVars PROVE ClockInv'
  OBVIOUS
<1>1. CASE Request
  <2>1. UNCHANGED jobVars /\ TicketNext
    BY <1>1 DEF Request
  <2>2. CASE \E r \in Requests : RequestNext(r)
    BY <2>1, <2>2, ReadsKeep, TransitionsKeep, WritesKeep DEF RequestNext, RequestEnds
  <2> QED  BY <2>1, <2>2, TimePasses, OneStatementKeeps DEF TicketNext
<1>2. CASE WindowPasses
  <2>1. ticket' \in TicketRows /\ now' = now /\ clock' = clock /\ req' = req /\ sweep' = sweep /\ closer' = closer
    BY <1>2, StateIs DEF WindowPasses, jobVars, TicketRows
  <2>2. ClockMoves(clock')
    BY <2>1, StateIs
  <2> QED  BY <2>1, <2>2, StateIs, ClockInvKept
<1>3. CASE UNCHANGED deskVars
  BY <1>3 DEF ClockInv, DeskTypeOK, deskVars, ticketVars
<1> QED  BY <1>1, <1>2, <1>3, SweepsKeep, ClosersKeep DEF DeskNext

(* However resumptions, sweeps and transitions overlap, no clock is given  *)
(* more time than was spent paused, and none is found breached before its  *)
(* target has passed (sla.ts, applyResume and evaluateState).              *)
THEOREM PausesAreCreditedOnce == DeskSpec => []PauseCreditedOnce
<1>1. ClockInv => PauseCreditedOnce
  BY DEF ClockInv, RowOK, DueOK, PauseCreditedOnce
<1> QED  BY <1>1, ClockInvInit, ClockInvStep, PTL DEF DeskSpec, DeskSafety
-----------------------------------------------------------------------------
(* Whoever holds the row's lock is as far as that takes it, and while the  *)
(* auto-close job holds it nobody takes the ticket out of "resolved".      *)
LockInv ==
  /\ \A r \in Requests : req[r].pc = "resuming" => rowLock = r
  /\ \A c \in Closers : closer[c] = "locked" =>
       rowLock = c /\ ticket.status = "resolved" /\ ticket.resolved = "longAgo"

LEMMA LockInvInit == DeskInit => LockInv
BY DEF DeskInit, TicketInit, Idle, LockInv

(* A request that does not hold the row, and does not write it while it is *)
(* held.                                                                   *)
LEMMA RequestHolds ==
  ASSUME ClockInv, LockInv, NEW r \in Requests, NEW record \in RequestRecords, req' = [req EXCEPT ![r] = record],
         UNCHANGED closer, record.pc = "resuming" => rowLock' = r,
         \/ rowLock = NoOne
         \/ rowLock = r
         \/ UNCHANGED <<ticket, rowLock>>,
         rowLock = NoOne => rowLock' \in {NoOne, r}
  PROVE  LockInv'
<1>1. \A c \in Closers : c # NoOne /\ c # r
  BY DeskAssumption
<1>2. r # NoOne /\ \A q \in Requests : q # NoOne
  BY TicketAssumption
<1>3. \A q \in Requests : q # r => req'[q] = req[q]
  BY DEF ClockInv, DeskTypeOK
<1>4. req'[r] = record
  BY DEF ClockInv, DeskTypeOK
<1> QED  BY <1>1, <1>2, <1>3, <1>4 DEF LockInv

LEMMA LockInvStep == ClockInv /\ LockInv /\ [DeskNext]_deskVars => LockInv'
<1> SUFFICES ASSUME ClockInv, LockInv, [DeskNext]_deskVars PROVE LockInv'
  OBVIOUS
<1>1. ASSUME NEW r \in Requests, RequestNext(r), UNCHANGED jobVars
      PROVE  LockInv'
  <2>1. /\ Idle \in RequestRecords /\ Idle.pc = "idle" /\ req[r] \in RequestRecords /\ ticket.status \in Statuses
        /\ ResumedRows(clock, now) \in Dues /\ closer' = closer
    BY <1>1, IdleIs, StateIs, ResumedIs DEF jobVars
  <2>2. CASE (\E to \in Statuses : TransitionRead(r, to)) \/ AssignRead(r) \/ ResumeSlaRead(r) \/ OtherRead(r)
    <3>1. PICK record \in RequestRecords : record.pc # "resuming" /\ req' = [req EXCEPT ![r] = record]
      <4>1. ASSUME NEW to \in Statuses, TransitionRead(r, to)
            PROVE  LET record == [Idle EXCEPT !.pc = "transition", !.read = ticket.status, !.to = to] IN
                   record \in RequestRecords /\ record.pc # "resuming" /\ req' = [req EXCEPT ![r] = record]
        BY <2>1, <4>1 DEF TransitionRead, RequestRecords, Pcs
      <4>2. ASSUME AssignRead(r)
            PROVE  LET record == [Idle EXCEPT !.pc = "assign", !.read = ticket.status] IN
                   record \in RequestRecords /\ record.pc # "resuming" /\ req' = [req EXCEPT ![r] = record]
        BY <2>1, <4>2 DEF AssignRead, RequestRecords, Pcs
      <4>3. ASSUME ResumeSlaRead(r)
            PROVE  LET record == [Idle EXCEPT !.pc = "resume", !.due = ResumedRows(clock, now)] IN
                   record \in RequestRecords /\ record.pc # "resuming" /\ req' = [req EXCEPT ![r] = record]
        BY <2>1, <4>3 DEF ResumeSlaRead, RequestRecords, Pcs
      <4>4. ASSUME NEW pc \in {"fulfil", "decide", "merge", "mail"}, Begins(r, pc)
            PROVE  LET record == [Idle EXCEPT !.pc = pc] IN
                   record \in RequestRecords /\ record.pc # "resuming" /\ req' = [req EXCEPT ![r] = record]
        BY <2>1, <4>4 DEF Begins, RequestRecords, Pcs
      <4>5. OtherRead(r) => \E pc \in {"fulfil", "decide", "merge", "mail"} : Begins(r, pc)
        BY DEF OtherRead
      <4> QED  BY <2>2, <4>1, <4>2, <4>3, <4>4, <4>5
    <3>2. UNCHANGED <<ticket, rowLock>>
      BY <2>2 DEF TransitionRead, AssignRead, ResumeSlaRead, OtherRead, Begins
    <3> QED  BY <2>1, <3>1, <3>2, RequestHolds
  <2>3. CASE TransitionLock(r)
    <3> DEFINE record == [req[r] EXCEPT !.pc = "resuming", !.due = ResumedRows(clock, now)]
    <3>1. record \in RequestRecords
      BY <2>1 DEF RequestRecords, Pcs
    <3>2. req' = [req EXCEPT ![r] = record] /\ rowLock = NoOne /\ rowLock' = r
      BY <2>3, StateIs DEF TransitionLock
    <3> HIDE DEF record
    <3> QED  BY <2>1, <3>1, <3>2, RequestHolds
  <2>4. CASE TransitionCommit(r)
    <3>1. rowLock = r /\ rowLock' = NoOne /\ req' = [req EXCEPT ![r] = Idle]
      BY <2>4 DEF TransitionCommit, LockInv
    <3> QED  BY <2>1, <3>1, RequestHolds
  <2>5. CASE \/ TransitionWrite(r) \/ FulfilWrite(r) \/ DecideWrite(r) \/ MergeWrite(r) \/ MailWrite(r)
             \/ \E hasAgent \in BOOLEAN : AssignWrite(r, hasAgent)
    <3>1. rowLock = NoOne /\ rowLock' = rowLock /\ req' = [req EXCEPT ![r] = Idle]
      BY <2>5 DEF TransitionWrite, FulfilWrite, DecideWrite, MergeWrite, MailWrite, AssignWrite, Writes
    <3> QED  BY <2>1, <3>1, RequestHolds
  <2>6. CASE ResumeSlaWrite(r) \/ RequestAbort(r)
    <3>1. /\ req' = [req EXCEPT ![r] = Idle] /\ ticket' = ticket
          /\ rowLock' = rowLock \/ (rowLock = r /\ rowLock' = NoOne)
      BY <2>6 DEF ResumeSlaWrite, RequestAbort
    <3> QED  BY <2>1, <3>1, RequestHolds
  <2> QED  BY <1>1, <2>2, <2>3, <2>4, <2>5, <2>6 DEF RequestNext, RequestEnds
<1>2. CASE (Tick \/ Reply \/ PauseSla) /\ UNCHANGED jobVars
  BY <1>2 DEF Tick, Reply, PauseSla, jobVars, LockInv
<1>3. CASE (Escalate \/ RuleChangesStatus \/ RuleReopens \/ RuleCloses) /\ UNCHANGED jobVars
  BY <1>3, DeskAssumption DEF Escalate, RuleChangesStatus, RuleReopens, RuleCloses, jobVars, LockInv
<1>4. CASE WindowPasses
  BY <1>4 DEF WindowPasses, jobVars, LockInv
<1>5. ASSUME NEW w \in Sweepers, SweeperStep(w)
      PROVE  LockInv'
  BY <1>5 DEF SweeperStep, SweepSelect, SweepRow, ticketVars, LockInv
<1>6. ASSUME NEW c \in Closers, CloserStep(c) \/ CloserFails(c)
      PROVE  LockInv'
  <2>1. c # NoOne /\ (\A r \in Requests : r # NoOne /\ r # c) /\ (\A d \in Closers : d # NoOne)
        /\ req' = req /\ closer \in [Closers -> {"idle", "candidate", "locked"}]
    BY <1>6, DeskAssumption, TicketAssumption, StateIs
       DEF CloserStep, CloserSelect, CloserLock, CloserCommit, CloserFails, ticketVars
  <2>2. CASE CloserSelect(c)
    BY <2>1, <2>2 DEF CloserSelect, ticketVars, LockInv
  <2>3. CASE CloserLock(c)
    BY <2>1, <2>3 DEF CloserLock, IsDueForAutoClose, LockInv
  <2>4. CASE CloserCommit(c) \/ CloserFails(c)
    <3>1. /\ rowLock = c /\ closer' = [closer EXCEPT ![c] = "idle"]
          /\ \A d \in Closers : closer[d] = "locked" => d = c
      BY <2>4 DEF CloserCommit, CloserFails, LockInv
    <3> QED  BY <2>1, <3>1 DEF LockInv
  <2> QED  BY <1>6, <2>2, <2>3, <2>4 DEF CloserStep
<1>7. CASE UNCHANGED deskVars
  BY <1>7 DEF deskVars, ticketVars, LockInv
<1> QED  BY <1>1, <1>2, <1>3, <1>4, <1>5, <1>6, <1>7 DEF DeskNext, Request, TicketNext

(* Of however many closers and requests, the auto-close job closes no      *)
(* ticket that was reopened, or resolved anew, since it was selected       *)
(* (auto-close-resolved.ts, FOR UPDATE SKIP LOCKED and the second look).   *)
THEOREM ReopenedAreSpared == DeskSpec => AutoCloseSparesReopened
<1> DEFINE Spares == \A c \in Closers : CloserCommit(c) => ticket.status = "resolved" /\ ticket.resolved = "longAgo"
<1>1. ClockInv /\ LockInv /\ [DeskNext]_deskVars => [Spares]_deskVars
  BY DEF CloserCommit, LockInv
<1>2. AutoCloseSparesReopened <=> [][Spares]_deskVars
  BY PTL DEF AutoCloseSparesReopened
<1> HIDE DEF Spares
<1> QED  BY <1>1, <1>2, ClockInvInit, ClockInvStep, LockInvInit, LockInvStep, PTL DEF DeskSpec, DeskSafety

-----------------------------------------------------------------------------
(* What leaves a stamp on an open ticket.                                  *)

(* A row is written as it was read, or is written over.                    *)
LEMMA StampsFollow ==
  ASSUME NEW row \in TicketRows, NEW to \in Statuses,
         row.status \notin TerminalStatuses => row.resolved = "no" /\ ~row.closed,
         StampedRow(row, row.status, to).status \notin TerminalStatuses
  PROVE  StampedRow(row, row.status, to).resolved = "no" /\ ~StampedRow(row, row.status, to).closed
BY DEF StampedRow, TicketRows, TerminalStatuses

(* A request that wrote over nothing leaves no stamp on an open ticket.    *)
LEMMA RequestsClear ==
  ASSUME ClockInv, NEW r \in Requests, RequestNext(r), OpenHasNoStamp, ~WritesOverMove(r)
  PROVE  OpenHasNoStamp'
<1>1. ticket \in TicketRows /\ req[r] \in RequestRecords /\ req[r].to \in Statuses
  BY StateIs
<1>2. CASE TransitionWrite(r) \/ TransitionCommit(r)
  <2>1. ticket' = StampedRow(ticket, ticket.status, req[r].to)
    BY <1>2 DEF TransitionWrite, TransitionCommit, WritesOverMove, RequestEnds
  <2> QED  BY <1>1, <2>1, StampsFollow DEF OpenHasNoStamp
<1>3. CASE \E hasAgent \in BOOLEAN : AssignWrite(r, hasAgent)
  <2>1. req[r].pc = "assign" /\ req[r].read = ticket.status
    BY <1>3 DEF AssignWrite, WritesOverMove, RequestEnds
  <2>2. ticket' = [ticket EXCEPT !.status = IF ticket.status \in Intake THEN "assigned" ELSE ticket.status]
    BY <1>3, <2>1 DEF AssignWrite
  <2> QED  BY <1>1, <2>2 DEF OpenHasNoStamp, TicketRows, Intake, TerminalStatuses
<1>4. CASE FulfilWrite(r) \/ DecideWrite(r) \/ MergeWrite(r) \/ MailWrite(r)
  <2>1. \/ ticket' = ticket
        \/ ticket'.status \in TerminalStatuses
        \/ ticket' = [status |-> "reopened", resolved |-> "no", closed |-> FALSE]
        \/ ticket.status = "new" /\ ticket' = [ticket EXCEPT !.status = "assigned"]
    BY <1>1, <1>4 DEF FulfilWrite, DecideWrite, MergeWrite, MailWrite, CloseById, TicketRows, TerminalStatuses
  <2> QED  BY <1>1, <2>1 DEF OpenHasNoStamp, TicketRows, TerminalStatuses
<1>5. CASE UNCHANGED ticket
  BY <1>5 DEF OpenHasNoStamp
<1> QED
  BY <1>2, <1>3, <1>4, <1>5
     DEF RequestNext, RequestEnds, TransitionRead, AssignRead, ResumeSlaRead, OtherRead, Begins, TransitionLock,
         ResumeSlaWrite, RequestAbort

LEMMA OthersClear ==
  ASSUME ClockInv, LockInv, [DeskNext]_deskVars, OpenHasNoStamp, ~RuleChangesStatus, ~RuleReopens,
         \A r \in Requests : ~RequestNext(r)
  PROVE  OpenHasNoStamp'
<1>1. ticket \in TicketRows
  BY StateIs
<1>2. CASE Escalate
  BY <1>1, <1>2 DEF Escalate, OpenHasNoStamp, TicketRows, Intake, TerminalStatuses
<1>3. CASE RuleCloses
  BY <1>1, <1>3 DEF RuleCloses, CloseById, OpenHasNoStamp, TicketRows, TerminalStatuses
<1>4. CASE WindowPasses
  BY <1>1, <1>4 DEF WindowPasses, OpenHasNoStamp, TicketRows
<1>5. ASSUME NEW c \in Closers, CloserStep(c) \/ CloserFails(c) PROVE OpenHasNoStamp'
  <2>1. ticket' = ticket \/ ticket'.status = "closed"
    BY <1>5 DEF CloserStep, CloserSelect, CloserLock, CloserCommit, CloserFails, ticketVars, StampedRow
  <2> QED  BY <2>1 DEF OpenHasNoStamp, TerminalStatuses
<1>6. CASE UNCHANGED ticket
  BY <1>6 DEF OpenHasNoStamp
<1> QED
  BY <1>2, <1>3, <1>4, <1>5, <1>6
     DEF DeskNext, Request, TicketNext, Tick, Reply, PauseSla, SweeperStep, SweepSelect, SweepRow, deskVars, ticketVars

(* Of however many requests, jobs and rules that overlap, only a write     *)
(* over a status that moved since it was read, and a rule that gives the   *)
(* ticket another status, leave a completion stamp on a ticket that is     *)
(* open (tickets.ts, LEAVING_TERMINAL; automation.ts).                     *)
THEOREM StampsAreCleared == DeskSafety => ReopeningClearsStamps
<1> DEFINE Clears == OpenHasNoStamp /\ ~OpenHasNoStamp' =>
                       RuleChangesStatus \/ RuleReopens \/ \E r \in Requests : WritesOverMove(r)
<1>1. ClockInv /\ LockInv /\ [DeskNext]_deskVars => [Clears]_deskVars
  <2> SUFFICES ASSUME ClockInv, LockInv, [DeskNext]_deskVars, OpenHasNoStamp, ~OpenHasNoStamp',
                      ~RuleChangesStatus, ~RuleReopens, \A r \in Requests : ~WritesOverMove(r)
               PROVE  FALSE
    OBVIOUS
  <2>1. \A r \in Requests : ~RequestNext(r)
    BY RequestsClear
  <2> QED  BY <2>1, OthersClear
<1>2. ReopeningClearsStamps <=> [][Clears]_deskVars
  BY PTL DEF ReopeningClearsStamps
<1> HIDE DEF Clears
<1> QED  BY <1>1, <1>2, ClockInvInit, ClockInvStep, LockInvInit, LockInvStep, PTL DEF DeskSafety
=============================================================================
