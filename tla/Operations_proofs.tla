-------------------------- MODULE Operations_proofs --------------------------
(***************************************************************************)
(* What the parts of Operations promise, for every value of their          *)
(* constants: each part's inductive invariant, that its steps keep it, and *)
(* the theorem; then, as every behaviour of Operations is one of each      *)
(* part, the properties that join two of them.                             *)
(***************************************************************************)
EXTENDS Operations, SequenceTheorems, FiniteSetTheorems, TLAPS

-----------------------------------------------------------------------------
(* TicketIntake: every filing succeeds, and no mail is taken up again.     *)

(* Who is numbered holds the organization's lock, so there is one at most, *)
(* and its number is free.                                                 *)
NumberedHoldsLock ==
  /\ \A c \in Callers : call[c].pc = "numbered" => numberLock = c /\ call[c].number \in Nat /\ ~Collides(call[c].number)
  /\ \A t \in Ticks : tick[t].pc = "numbered" => numberLock = t /\ tick[t].number \in Nat /\ ~Collides(tick[t].number)

(* A second try of a synchronization finds the ticket it lost to.          *)
SecondTryFinds ==
  \A c \in Callers : /\ call[c].tries \in {1, 2}
                     /\ call[c].tries = 2 => c \in Syncs /\ ItemFiled /\ call[c].pc \in {"idle", "done"}

(* Numbers are natural, and one of them has the largest digits.            *)
NumbersHaveTop ==
  /\ \A row \in tickets : row.number \in Nat
  /\ tickets = {} \/ \E top \in tickets : \A row \in tickets : DigitsOf(row.number) <= DigitsOf(top.number)

(* The changes of the mailbox are numbered, and one of them is the latest. *)
Changes == {changed[m] : m \in Messages} \cup {0}
ChangesHaveTop == \E top \in Changes : \A n \in Changes : n <= top

CallPcs == {"idle", "missed", "numbered", "done", "refused", "overflowed"}
TickPcs == {"idle", "opened", "fetched", "reading", "missed", "numbered", "commented"}
TickStates == [pc : TickPcs, link : Int, batch : SUBSET Messages, mail : Messages \cup {NoMail}, number : Nat]

CallStates == [pc : CallPcs, number : Nat, tries : {1, 2}]

IntakeTypeOK ==
  /\ call \in [Callers -> CallStates]
  /\ tick \in [Ticks -> TickStates]
  /\ changed \in [Messages -> Nat] /\ cursor \in Int

IntakeIInv == IntakeTypeOK /\ ChangesHaveTop /\ NumbersHaveTop /\ NumberedHoldsLock /\ SecondTryFinds /\ SyncNeverRefused

(* What a call and a tick are put in is a state of theirs.                 *)
LEMMA CallShapes ==
  ASSUME NEW how \in CallPcs
  PROVE  /\ NewCall \in CallStates /\ NewCall.pc = "idle" /\ NewCall.tries = 1
         /\ Ended(how) \in CallStates /\ Ended(how).pc = how /\ Ended(how).tries = 1
<1>1. NewCall = [pc |-> "idle", number |-> 0, tries |-> 1] /\ Ended(how) = [pc |-> how, number |-> 0, tries |-> 1]
  BY DEF NewCall, Ended
<1> QED  BY <1>1 DEF CallStates, CallPcs

LEMMA TickShapes ==
  ASSUME NEW pc \in TickPcs, NEW link \in Int, NEW batch \in SUBSET Messages, NEW m \in Messages \cup {NoMail}
  PROVE  TickAt(pc, link, batch, m) \in TickStates /\ TickAt(pc, link, batch, m).pc = pc /\ TickAt(pc, link, batch, m).mail = m
BY DEF TickAt, TickStates

LEMMA IdleShapes ==
  /\ NoLink \in Int /\ NoTick \in TickStates /\ NoTick.pc = "idle"
  /\ \A batch \in SUBSET Messages : Reading(batch) \in TickStates /\ Reading(batch).pc = "reading"
<1>1. NoLink \in Int
  BY DEF NoLink
<1>2. {"idle", "reading"} \subseteq TickPcs /\ {} \in SUBSET Messages
  BY DEF TickPcs
<1> QED  BY <1>1, <1>2, TickShapes DEF NoTick, Reading

(* The digits of a number, those of the prefix included, are no less.      *)
LEMMA DigitsGrow == \A n \in Nat : DigitsOf(n) \in Nat /\ DigitsOf(n) >= n
<1> SUFFICES ASSUME NEW n \in Nat PROVE DigitsOf(n) \in Nat /\ DigitsOf(n) >= n
  OBVIOUS
<1>1. PrefixDigits \in Nat
  BY IntakeAssumption
<1>2. Shift(n) \in Nat
  BY DEF Shift
<1>3. PrefixDigits * Shift(n) \in Nat
  BY <1>1, <1>2
<1> QED  BY <1>1, <1>3 DEF DigitsOf

(* A bound that is in a set is what Max chooses.                           *)
LEMMA MaxIsBound ==
  ASSUME NEW S \in SUBSET Nat, NEW b \in S, \A x \in S : x <= b PROVE Max(S) \in S /\ \A x \in S : x <= Max(S)
<1>1. \E m \in S : \A y \in S : m >= y
  <2>1. \A y \in S : b >= y
    OBVIOUS
  <2> QED  BY <2>1
<1>2. Max(S) \in S /\ \A y \in S : Max(S) >= y
  BY <1>1 DEF Max
<1> QED  BY <1>2

(* nextTicketNumber: what it returns is a number no ticket has.            *)
LEMMA NextIsFree == ASSUME NumbersHaveTop PROVE NextNumber \in Nat /\ ~Collides(NextNumber)
<1> DEFINE S == {DigitsOf(row.number) : row \in tickets} \cup {0}
<1>1. \A row \in tickets : row.number \in Nat /\ DigitsOf(row.number) \in Nat /\ DigitsOf(row.number) >= row.number
  BY DigitsGrow DEF NumbersHaveTop
<1>2. S \in SUBSET Nat
  BY <1>1
<1>3. \E b \in S : \A x \in S : x <= b
  <2>1. CASE tickets = {}
    BY <2>1
  <2>2. CASE tickets # {}
    <3>1. PICK top \in tickets : \A row \in tickets : DigitsOf(row.number) <= DigitsOf(top.number)
      BY <2>2 DEF NumbersHaveTop
    <3>2. DigitsOf(top.number) \in S /\ \A x \in S : x <= DigitsOf(top.number)
      BY <1>1, <3>1
    <3> QED  BY <3>2
  <2> QED  BY <2>1, <2>2
<1>4. NextNumber = Max(S) + 1
  BY DEF NextNumber
<1> HIDE DEF S
<1>5. Max(S) \in Nat /\ \A x \in S : x <= Max(S)
  BY <1>2, <1>3, MaxIsBound
<1>6. \A row \in tickets : row.number <= Max(S)
  <2> SUFFICES ASSUME NEW row \in tickets PROVE row.number <= Max(S)
    OBVIOUS
  <2>1. DigitsOf(row.number) \in S
    BY DEF S
  <2>2. DigitsOf(row.number) <= Max(S)
    BY <1>5, <2>1
  <2> QED  BY <1>1, <1>5, <2>2
<1> QED  BY <1>1, <1>4, <1>5, <1>6 DEF Collides

(* A ticket is filed under a number that is a natural one.                 *)
LEMMA TopStays ==
  ASSUME NumbersHaveTop, NEW n \in Nat, NEW source, File(n, source) PROVE NumbersHaveTop'
<1> DEFINE new == [number |-> n, from |-> source]
<1>1. tickets' = tickets \cup {new} /\ new.number = n
  BY DEF File
<1> HIDE DEF new
<1>2. \A row \in tickets : row.number \in Nat /\ DigitsOf(row.number) \in Nat
  BY DigitsGrow DEF NumbersHaveTop
<1>3. DigitsOf(n) \in Nat
  BY DigitsGrow
<1>4. CASE tickets = {}
  BY <1>1, <1>3, <1>4 DEF NumbersHaveTop
<1>5. CASE tickets # {}
  <2>1. PICK top \in tickets : \A row \in tickets : DigitsOf(row.number) <= DigitsOf(top.number)
    BY <1>5 DEF NumbersHaveTop
  <2>2. CASE DigitsOf(n) <= DigitsOf(top.number)
    BY <1>1, <1>2, <2>1, <2>2 DEF NumbersHaveTop
  <2>3. CASE DigitsOf(n) > DigitsOf(top.number)
    <3>1. \A row \in tickets' : DigitsOf(row.number) <= DigitsOf(new.number)
      BY <1>1, <1>2, <1>3, <2>1, <2>3
    <3> QED  BY <1>1, <1>2, <3>1 DEF NumbersHaveTop
  <2> QED  BY <1>2, <1>3, <2>1, <2>2, <2>3
<1> QED  BY <1>4, <1>5

(* The link that covers all changes.                                       *)
LEMMA LatestIsTop ==
  ASSUME changed \in [Messages -> Nat], ChangesHaveTop
  PROVE  Latest \in Nat /\ \A m \in Messages : changed[m] <= Latest
<1>1. Changes \in SUBSET Nat /\ Latest = Max(Changes)
  BY DEF Changes, Latest
<1>2. PICK top \in Changes : \A n \in Changes : n <= top
  BY DEF ChangesHaveTop
<1>3. Max(Changes) \in Changes /\ \A n \in Changes : n <= Max(Changes)
  BY <1>1, <1>2, MaxIsBound
<1>4. \A m \in Messages : changed[m] \in Changes
  BY DEF Changes
<1> QED  BY <1>1, <1>3, <1>4

LEMMA IntakeInitOK == IntakeInit => IntakeIInv
<1> SUFFICES ASSUME IntakeInit PROVE IntakeIInv
  OBVIOUS
<1>1. \A c \in Callers : call[c] = NewCall
  BY DEF IntakeInit
<1>2. \A t \in Ticks : tick[t] = NoTick
  BY DEF IntakeInit
<1>3. IntakeTypeOK /\ ChangesHaveTop
  <2>1. NewCall \in CallStates /\ NoTick \in TickStates /\ NoLink \in Int
    BY CallShapes, IdleShapes DEF CallPcs
  <2>2. Changes = {0}
    BY DEF IntakeInit, Changes
  <2> QED  BY <2>1, <2>2 DEF IntakeInit, IntakeTypeOK, ChangesHaveTop
<1>4. NumbersHaveTop
  BY DEF IntakeInit, NumbersHaveTop
<1> QED  BY <1>1, <1>2, <1>3, <1>4 DEF IntakeIInv, NumberedHoldsLock, SecondTryFinds, SyncNeverRefused, NewCall, NoTick, TickAt, Callers

(* A call moves, and files a ticket only if it was numbered.               *)
LEMMA CallGoes ==
  ASSUME IntakeIInv, NEW c \in Callers, NEW to \in CallStates,
         call' = [call EXCEPT ![c] = to], UNCHANGED <<tick, changed, cursor>>, tickets \subseteq tickets', NumbersHaveTop',
         tickets' = tickets \/ call[c].pc = "numbered",
         \A d : d # c /\ numberLock = d /\ d \in Callers \cup Ticks => numberLock' = d,
         to.pc = "numbered" => numberLock' = c /\ ~Collides(to.number)',
         to.tries = 2 => c \in Syncs /\ ItemFiled' /\ to.pc \in {"idle", "done"},
         c \in Syncs => to.pc # "refused" /\ (to.pc = "done" => ItemFiled')
  PROVE  IntakeIInv'
<1> USE IntakeAssumption DEF IntakeIInv
<1>1. \A d \in Callers : call'[d] = IF d = c THEN to ELSE call[d]
  BY DEF IntakeTypeOK
<1>2. IntakeTypeOK' /\ ChangesHaveTop'
  <2>1. ChangesHaveTop'
    BY DEF ChangesHaveTop, Changes
  <2> QED  BY <2>1 DEF IntakeTypeOK
<1>3. ItemFiled => ItemFiled'
  BY DEF ItemFiled
<1>4. \A n : ~Collides(n) /\ call[c].pc # "numbered" => \A row \in tickets' : row.number # n
  BY DEF Collides
<1>5. c \notin Ticks
  OBVIOUS
<1>6. NumberedHoldsLock'
  <2>1. ASSUME NEW d \in Callers, call'[d].pc = "numbered"
        PROVE  numberLock' = d /\ call'[d].number \in Nat /\ \A row \in tickets' : row.number # call'[d].number
    <3>1. CASE d = c
      BY <1>1, <2>1, <3>1 DEF Collides, CallStates
    <3>2. CASE d # c
      <4>1. call'[d] = call[d] /\ numberLock = d /\ call[c].pc # "numbered" /\ call[d].number \in Nat
            /\ ~Collides(call[d].number)
        BY <1>1, <2>1, <3>2 DEF NumberedHoldsLock
      <4> QED  BY <1>4, <3>2, <4>1
    <3> QED  BY <3>1, <3>2
  <2>2. ASSUME NEW t \in Ticks, tick'[t].pc = "numbered"
        PROVE  numberLock' = t /\ tick'[t].number \in Nat /\ \A row \in tickets' : row.number # tick'[t].number
    <3>1. numberLock = t /\ call[c].pc # "numbered" /\ tick[t].number \in Nat /\ ~Collides(tick[t].number)
      BY <1>5, <2>2 DEF NumberedHoldsLock
    <3> QED  BY <1>4, <1>5, <3>1
  <2> QED  BY <2>1, <2>2 DEF NumberedHoldsLock, Collides
<1>7. SecondTryFinds'
  BY <1>1, <1>3 DEF SecondTryFinds, CallStates
<1>8. SyncNeverRefused'
  <2>1. \A d \in Callers : call'[d].pc # "collided"
    BY <1>2 DEF IntakeTypeOK, CallStates, CallPcs
  <2> QED  BY <1>1, <1>3, <2>1 DEF SyncNeverRefused, Callers
<1> QED  BY <1>2, <1>6, <1>7, <1>8

(* A tick moves, likewise.                                                 *)
LEMMA TickGoes ==
  ASSUME IntakeIInv, NEW t \in Ticks,
         NEW to \in TickStates, tick' = [tick EXCEPT ![t] = to],
         UNCHANGED <<call, changed>>, cursor' \in Int, tickets \subseteq tickets',
         NumbersHaveTop', tickets' = tickets \/ tick[t].pc = "numbered",
         \A d : d # t /\ numberLock = d /\ d \in Callers \cup Ticks => numberLock' = d,
         to.pc = "numbered" => numberLock' = t /\ ~Collides(to.number)'
  PROVE  IntakeIInv'
<1> USE IntakeAssumption DEF IntakeIInv
<1>1. \A d \in Ticks : tick'[d] = IF d = t THEN to ELSE tick[d]
  BY DEF IntakeTypeOK
<1>2. IntakeTypeOK' /\ ChangesHaveTop'
  <2>1. ChangesHaveTop'
    BY DEF ChangesHaveTop, Changes
  <2> QED  BY <2>1 DEF IntakeTypeOK
<1>3. ItemFiled => ItemFiled'
  BY DEF ItemFiled
<1>4. \A n : ~Collides(n) /\ tick[t].pc # "numbered" => \A row \in tickets' : row.number # n
  BY DEF Collides
<1>5. t \notin Callers
  OBVIOUS
<1>6. NumberedHoldsLock'
  <2>1. ASSUME NEW d \in Ticks, tick'[d].pc = "numbered"
        PROVE  numberLock' = d /\ tick'[d].number \in Nat /\ \A row \in tickets' : row.number # tick'[d].number
    <3>1. CASE d = t
      BY <1>1, <2>1, <3>1 DEF Collides, TickStates
    <3>2. CASE d # t
      <4>1. tick'[d] = tick[d] /\ numberLock = d /\ tick[t].pc # "numbered" /\ tick[d].number \in Nat
            /\ ~Collides(tick[d].number)
        BY <1>1, <2>1, <3>2 DEF NumberedHoldsLock
      <4> QED  BY <1>4, <3>2, <4>1
    <3> QED  BY <3>1, <3>2
  <2>2. ASSUME NEW c \in Callers, call'[c].pc = "numbered"
        PROVE  numberLock' = c /\ call'[c].number \in Nat /\ \A row \in tickets' : row.number # call'[c].number
    <3>1. numberLock = c /\ tick[t].pc # "numbered" /\ call[c].number \in Nat /\ ~Collides(call[c].number)
      BY <1>5, <2>2 DEF NumberedHoldsLock
    <3> QED  BY <1>4, <1>5, <3>1
  <2> QED  BY <2>1, <2>2 DEF NumberedHoldsLock, Collides
<1>7. SecondTryFinds' /\ SyncNeverRefused'
  BY <1>3 DEF SecondTryFinds, SyncNeverRefused
<1> QED  BY <1>2, <1>6, <1>7

(* Dropping a lock takes it from nobody else.                              *)
LEMMA DropSpares ==
  ASSUME NEW who, DropNumberLock(who) \/ UNCHANGED numberLock \/ TakeNumberLock(who)
  PROVE  \A d : d # who /\ numberLock = d /\ d \in Callers \cup Ticks => numberLock' = d
BY IntakeAssumption DEF DropNumberLock, TakeNumberLock

LEMMA CallStep ==
  ASSUME IntakeIInv, NEW c \in Callers,
         (c \in Syncs /\ SyncReads(c)) \/ CallNumbers(c) \/ CallInserts(c) \/ CallAborts(c)
  PROVE  IntakeIInv'
<1>0. IntakeTypeOK /\ NumbersHaveTop /\ NumberedHoldsLock /\ SecondTryFinds /\ SyncNeverRefused
  BY DEF IntakeIInv
<1>1. call[c] \in CallStates /\ UNCHANGED <<tick, changed, cursor>>
  BY <1>0 DEF IntakeTypeOK, SyncReads, CallNumbers, CallInserts, CallAborts, mailVars
<1>6. call[c].pc \in CallPcs /\ call[c].number \in Nat /\ call[c].tries \in {1, 2}
      /\ call[c] = [pc |-> call[c].pc, number |-> call[c].number, tries |-> call[c].tries]
  BY <1>1 DEF CallStates
<1>2. CASE c \in Syncs /\ SyncReads(c)
  <2>1. PICK to \in CallStates : /\ to = [call[c] EXCEPT !.pc = IF ItemFiled THEN "done" ELSE "missed"]
    BY <1>1 DEF CallPcs, CallStates
  <2>2. call' = [call EXCEPT ![c] = to] /\ UNCHANGED <<tickets, numberLock>> /\ to.pc \in {"done", "missed"}
        /\ (to.pc = "done" <=> ItemFiled) /\ to.tries = call[c].tries
    BY <1>1, <1>2, <2>1 DEF SyncReads, CallStates
  <2>3. NumbersHaveTop' /\ ItemFiled' = ItemFiled
    BY <1>0, <2>2 DEF NumbersHaveTop, ItemFiled
  <2>4. to.tries = 2 => c \in Syncs /\ ItemFiled' /\ to.pc \in {"idle", "done"}
    BY <1>0, <2>2, <2>3 DEF SecondTryFinds
  <2>5. \A d : d # c /\ numberLock = d /\ d \in Callers \cup Ticks => numberLock' = d
    BY <2>2, DropSpares
  <2> QED  BY <1>1, <2>2, <2>3, <2>4, <2>5, CallGoes
<1>3. CASE CallNumbers(c)
  <2>1. UNCHANGED tickets /\ NumbersHaveTop' /\ ItemFiled' = ItemFiled
    BY <1>0, <1>3 DEF CallNumbers, NumbersHaveTop, ItemFiled
  <2>2. call[c].tries = 1
    BY <1>0, <1>1, <1>3 DEF CallNumbers, SecondTryFinds
  <2>3. CASE Numbering
    <3>1. PICK to \in CallStates : to = [call[c] EXCEPT !.pc = "numbered", !.number = NextNumber]
      BY <1>0, <1>1, NextIsFree DEF CallPcs, CallStates
    <3>2. to.pc = "numbered" /\ to.tries # 2 /\ to.number = NextNumber
      BY <1>1, <2>2, <3>1 DEF CallStates
    <3>3. call' = [call EXCEPT ![c].pc = "numbered", ![c].number = NextNumber] /\ TakeNumberLock(c)
      BY <1>3, <2>3 DEF CallNumbers
    <3>4. call' = [call EXCEPT ![c] = to] /\ numberLock' = c
      BY <1>0, <1>1, <3>1, <3>3 DEF TakeNumberLock, IntakeTypeOK
    <3>5. ~Collides(to.number)'
      BY <1>0, <2>1, <3>2, NextIsFree DEF Collides
    <3>6. \A d : d # c /\ numberLock = d /\ d \in Callers \cup Ticks => numberLock' = d
      BY <3>3, DropSpares
    <3> QED  BY <1>1, <2>1, <3>2, <3>4, <3>5, <3>6, CallGoes
  <2>4. CASE ~Numbering
    <3>1. PICK to \in CallStates : to = [call[c] EXCEPT !.pc = "overflowed"]
      BY <1>1 DEF CallPcs, CallStates
    <3>2. call' = [call EXCEPT ![c] = to] /\ UNCHANGED numberLock /\ to.pc = "overflowed" /\ to.tries # 2
      BY <1>1, <1>3, <2>2, <2>4, <3>1 DEF CallNumbers, CallStates
    <3>3. \A d : d # c /\ numberLock = d /\ d \in Callers \cup Ticks => numberLock' = d
      BY <3>2, DropSpares
    <3> QED  BY <1>1, <2>1, <3>2, <3>3, CallGoes
  <2> QED  BY <2>3, <2>4
<1>4. CASE CallInserts(c)
  <2>1. /\ call[c].pc = "numbered" /\ call[c].number \in Nat /\ ~Collides(call[c].number) /\ call[c].tries = 1
        /\ DropNumberLock(c)
    BY <1>0, <1>1, <1>4 DEF CallInserts, NumberedHoldsLock, SecondTryFinds
  <2>2. \A d : d # c /\ numberLock = d /\ d \in Callers \cup Ticks => numberLock' = d
    BY <2>1, DropSpares
  <2>3. CASE c \in Syncs /\ ItemFiled
    <3>1. PICK to \in CallStates : to = [NewCall EXCEPT !.tries = 2]
      BY DEF CallPcs, NewCall, CallStates
    <3>2. to.pc = "idle" /\ call' = [call EXCEPT ![c] = to] /\ UNCHANGED tickets
      BY <1>4, <2>1, <2>3, <3>1 DEF CallInserts, AfterConflict, NewCall
    <3>3. NumbersHaveTop' /\ ItemFiled'
      BY <1>0, <2>3, <3>2 DEF NumbersHaveTop, ItemFiled
    <3> QED  BY <1>1, <2>1, <2>3, <2>2, <3>2, <3>3, CallGoes
  <2>4. CASE ~(c \in Syncs /\ ItemFiled)
    <3>1. PICK to \in CallStates : to = Ended("done") /\ to.pc = "done" /\ to.tries = 1
      BY CallShapes DEF CallPcs
    <3>2. /\ to.pc = "done" /\ to.tries # 2 /\ call' = [call EXCEPT ![c] = to]
          /\ File(call[c].number, IF c \in Syncs THEN Item ELSE c)
      BY <1>1, <1>4, <2>1, <2>4, <3>1 DEF CallInserts
    <3>3. NumbersHaveTop' /\ tickets \subseteq tickets'
      BY <1>0, <2>1, <3>2, TopStays DEF File
    <3>4. c \in Syncs => ItemFiled'
      <4> SUFFICES ASSUME c \in Syncs PROVE ItemFiled'
        OBVIOUS
      <4>1. [number |-> call[c].number, from |-> Item] \in tickets'
        BY <3>2 DEF File
      <4> QED  BY <4>1 DEF ItemFiled
    <3> QED  BY <1>1, <2>1, <2>4, <2>2, <3>2, <3>3, <3>4, CallGoes
  <2> QED  BY <2>3, <2>4
<1>5. CASE CallAborts(c)
  <2>1. PICK to \in CallStates : to = NewCall /\ to.pc = "idle" /\ to.tries = 1
    BY CallShapes DEF CallPcs
  <2>2. call' = [call EXCEPT ![c] = to] /\ UNCHANGED tickets /\ DropNumberLock(c)
    BY <1>1, <1>5, <2>1 DEF CallAborts
  <2>3. NumbersHaveTop' /\ to.tries # 2
    BY <1>0, <2>1, <2>2 DEF NumbersHaveTop
  <2>4. \A d : d # c /\ numberLock = d /\ d \in Callers \cup Ticks => numberLock' = d
    BY <2>2, DropSpares
  <2> QED  BY <1>1, <2>1, <2>2, <2>3, <2>4, CallGoes
<1> QED  BY <1>2, <1>3, <1>4, <1>5

LEMMA MailStep ==
  ASSUME IntakeIInv, NEW t \in Ticks,
         \/ TickOpens(t) \/ TickFetches(t) \/ TickStores(t) \/ TickReads(t) \/ TickMarks(t)
         \/ TickNumbers(t) \/ TickInserts(t) \/ TickEnds(t) \/ TickDies(t)
  PROVE  IntakeIInv'
<1>0. /\ IntakeTypeOK /\ ChangesHaveTop /\ NumbersHaveTop /\ NumberedHoldsLock /\ SecondTryFinds /\ SyncNeverRefused
      /\ cursor \in Int /\ changed \in [Messages -> Nat]
  BY DEF IntakeIInv, IntakeTypeOK
<1>1. tick[t] \in TickStates
  BY <1>0 DEF IntakeTypeOK
<1>2. /\ NoTick \in TickStates /\ NoTick.pc = "idle"
      /\ \A batch \in SUBSET Messages : Reading(batch) \in TickStates /\ Reading(batch).pc = "reading"
  BY IdleShapes
<1>3. CASE TickNumbers(t)
  <2>1. PICK to \in TickStates : to = [tick[t] EXCEPT !.pc = "numbered", !.number = NextNumber]
    BY <1>0, <1>1, NextIsFree DEF TickPcs, TickStates
  <2>2. /\ tick' = [tick EXCEPT ![t] = to] /\ UNCHANGED <<tickets, call, changed, cursor>> /\ numberLock = Free /\ numberLock' = t
        /\ to.number = NextNumber
    BY <1>1, <1>3, <2>1 DEF TickNumbers, TakeNumberLock, callVars, TickStates
  <2>3. NumbersHaveTop' /\ ~Collides(to.number)' /\ cursor' \in Int
    BY <1>0, <2>2, NextIsFree DEF Collides, NumbersHaveTop
  <2>4. \A d : d # t /\ numberLock = d /\ d \in Callers \cup Ticks => numberLock' = d
    BY <1>3, DropSpares DEF TickNumbers
  <2> QED  BY <2>2, <2>3, <2>4, TickGoes
<1>4. CASE TickInserts(t)
  <2>1. PICK to \in TickStates : to = Reading(tick[t].batch) /\ to.pc = "reading"
    BY <1>1, <1>2 DEF TickStates
  <2>2. /\ tick' = [tick EXCEPT ![t] = to] /\ UNCHANGED <<call, changed, cursor>> /\ DropNumberLock(t)
        /\ tick[t].pc = "numbered" /\ File(tick[t].number, tick[t].mail)
    BY <1>0, <1>4, <2>1 DEF TickInserts, callVars, IntakeTypeOK
  <2>3. tickets \subseteq tickets' /\ NumbersHaveTop' /\ cursor' \in Int
    BY <1>0, <1>1, <2>2, TopStays DEF File, TickStates
  <2> QED  BY <2>1, <2>2, <2>3, DropSpares, TickGoes
<1>5. CASE \/ TickOpens(t) \/ TickFetches(t) \/ TickStores(t) \/ TickReads(t) \/ TickMarks(t)
           \/ TickEnds(t) \/ TickDies(t)
  <2>1. UNCHANGED <<tickets, call, changed>> /\ cursor' \in Int
    BY <1>0, <1>1, <1>5 DEF TickOpens, TickFetches, TickStores, TickReads, TickMarks, TickEnds, TickDies, callVars, TickStates
  <2>2. DropNumberLock(t) \/ UNCHANGED numberLock
    BY <1>5 DEF TickOpens, TickFetches, TickStores, TickReads, TickMarks, TickEnds, TickDies
  <2>3. PICK to \in TickStates : tick' = [tick EXCEPT ![t] = to] /\ to.pc # "numbered"
    <3>1. CASE TickOpens(t)
      <4>1. PICK to \in TickStates : to = TickAt("opened", cursor, {}, NoMail) /\ to.pc = "opened"
        BY <1>0, TickShapes DEF TickPcs
      <4> QED  BY <3>1, <4>1 DEF TickOpens
    <3>2. CASE TickFetches(t)
      <4>1. Latest \in Int /\ Listed(tick[t].link) \in SUBSET Messages
        BY <1>0, LatestIsTop DEF Listed
      <4>2. PICK to \in TickStates :
              to = TickAt("fetched", Latest, Listed(tick[t].link), NoMail) /\ to.pc = "fetched"
        BY <4>1, TickShapes DEF TickPcs
      <4> QED  BY <3>2, <4>2 DEF TickFetches
    <3>3. CASE TickStores(t) \/ TickMarks(t)
      BY <1>0, <1>1, <1>2, <3>3 DEF TickStores, TickMarks, TickStates, IntakeTypeOK
    <3>4. CASE TickReads(t)
      <4>1. PICK m \in tick[t].batch, pc \in {"reading", "commented", "missed"} :
              \/ tick' = [tick EXCEPT ![t] = Reading(tick[t].batch \ {m})]
              \/ tick' = [tick EXCEPT ![t] = TickAt(pc, NoLink, tick[t].batch \ {m}, m)]
        BY <3>4 DEF TickReads
      <4>2. m \in Messages /\ tick[t].batch \ {m} \in SUBSET Messages
        BY <1>1, <4>1 DEF TickStates
      <4>3. PICK to \in TickStates : to = TickAt(pc, NoLink, tick[t].batch \ {m}, m) /\ to.pc = pc
        BY <4>1, <4>2, TickShapes, IdleShapes DEF TickPcs
      <4> QED  BY <1>2, <4>1, <4>2, <4>3
    <3>5. CASE TickEnds(t) \/ TickDies(t)
      BY <1>2, <3>5 DEF TickEnds, TickDies
    <3> QED  BY <1>5, <3>1, <3>2, <3>3, <3>4, <3>5
  <2>4. NumbersHaveTop'
    BY <1>0, <2>1 DEF NumbersHaveTop
  <2> QED  BY <2>1, <2>2, <2>3, <2>4, DropSpares, TickGoes
<1> QED  BY <1>3, <1>4, <1>5

(* A change is the latest.                                                 *)
LEMMA MailboxStep ==
  ASSUME IntakeIInv, NEW m \in Messages, changed' = [changed EXCEPT ![m] = Latest + 1],
         UNCHANGED <<tickets, numberLock, call, tick, cursor>>
  PROVE  IntakeIInv'
<1>1. Latest \in Nat /\ \A n \in Messages : changed[n] <= Latest
  BY LatestIsTop DEF IntakeIInv, IntakeTypeOK
<1>2. changed' \in [Messages -> Nat] /\ changed'[m] = Latest + 1 /\ \A n \in Messages : n # m => changed'[n] = changed[n]
  BY <1>1 DEF IntakeIInv, IntakeTypeOK
<1>3. ChangesHaveTop'
  <2>1. changed'[m] \in Changes' /\ \A n \in Changes' : n <= changed'[m]
    BY <1>1, <1>2 DEF Changes, IntakeIInv, IntakeTypeOK
  <2> QED  BY <2>1 DEF ChangesHaveTop
<1> QED  BY <1>2, <1>3 DEF IntakeIInv, IntakeTypeOK, NumbersHaveTop, NumberedHoldsLock, Collides, SecondTryFinds,
                            SyncNeverRefused, ItemFiled

LEMMA IntakeStep == IntakeIInv /\ [IntakeNext]_intakeVars => IntakeIInv'
<1> SUFFICES ASSUME IntakeIInv, [IntakeNext]_intakeVars PROVE IntakeIInv'
  OBVIOUS
<1>1. CASE UNCHANGED intakeVars
  <2>1. UNCHANGED <<tickets, numberLock, call, tick, changed, cursor>>
    BY <1>1 DEF intakeVars, callVars, mailVars
  <2> QED  BY <2>1 DEF IntakeIInv, IntakeTypeOK, ChangesHaveTop, Changes, NumbersHaveTop, NumberedHoldsLock, Collides,
                       SecondTryFinds, SyncNeverRefused, ItemFiled
<1>2. ASSUME NEW m \in Messages, MailArrives(m) \/ MailIsListedAgain(m) PROVE IntakeIInv'
  BY <1>2, MailboxStep DEF MailArrives, MailIsListedAgain, callVars
<1> QED  BY <1>1, <1>2, CallStep, MailStep DEF IntakeNext, Callers

(* No filing fails for what another does at the same time: neither for its *)
(* number, under whatever prefix, nor for its external reference, and for  *)
(* any number of callers and mail ticks (tickets.ts, nextTicketNumber;     *)
(* integration-tickets.ts).                                                *)
THEOREM FilingNeverFails == IntakeSpec => []EveryFilingSucceeds
<1>1. IntakeIInv => EveryFilingSucceeds
  BY DEF IntakeIInv, IntakeTypeOK, CallStates, CallPcs, NumberedHoldsLock, SyncNeverRefused, EveryFilingSucceeds, FilingNeverCollides
<1> QED  BY <1>1, IntakeInitOK, IntakeStep, PTL DEF IntakeSpec

(* What came of a mail and what is in hand of it never grow beyond the     *)
(* ticks: a mail that opened a ticket is marked, one that became a comment *)
(* quotes a ticket that exists, and neither is taken up again.             *)
FiledIn(rs, m) == {row \in rs : row.from = m}
HandsIn(tk, m) == {t \in Ticks : tk[t].mail = m /\ tk[t].pc \in {"missed", "numbered"}}
CommentOf(ms, m) == IF m \in ms THEN 1 ELSE 0

TakenUp ==
  /\ \A row \in tickets : row.from \in Messages => row.from \in seen
  /\ \A m \in commented : m \in Replies /\ Collides(1)
  /\ \A m \in Messages :
       /\ IsFiniteSet(FiledIn(tickets, m))
       /\ Cardinality(FiledIn(tickets, m)) + CommentOf(commented, m) + Cardinality(HandsIn(tick, m)) <= Cardinality(Ticks)

LEMMA HandsAreTicks ==
  ASSUME NEW tk, NEW m
  PROVE  /\ HandsIn(tk, m) \subseteq Ticks /\ IsFiniteSet(HandsIn(tk, m)) /\ Cardinality(HandsIn(tk, m)) \in Nat
         /\ Cardinality(Ticks) \in Nat /\ Cardinality(HandsIn(tk, m)) <= Cardinality(Ticks)
<1>1. HandsIn(tk, m) \in SUBSET Ticks
  BY DEF HandsIn
<1> QED  BY <1>1, IntakeAssumption, FS_Subset, FS_CardinalityType

LEMMA NothingFiledYet ==
  ASSUME TakenUp, NEW m \in Messages, m \notin seen PROVE Cardinality(FiledIn(tickets, m)) = 0
<1>1. FiledIn(tickets, m) = {}
  BY DEF TakenUp, FiledIn
<1> QED  BY <1>1, FS_EmptySet

(* Nothing is filed, and no mail is taken in hand.                         *)
LEMMA TakenUpStays ==
  ASSUME TakenUp, tickets \subseteq tickets', \A row \in tickets' : row.from \in Messages => row \in tickets,
         UNCHANGED commented, seen \subseteq seen', \A m \in Messages : HandsIn(tick', m) \subseteq HandsIn(tick, m)
  PROVE  TakenUp'
<1>1. ASSUME NEW m \in Messages
      PROVE  /\ IsFiniteSet(FiledIn(tickets', m))
             /\ Cardinality(FiledIn(tickets', m)) + CommentOf(commented, m) + Cardinality(HandsIn(tick', m)) <= Cardinality(Ticks)
  <2>1. FiledIn(tickets', m) = FiledIn(tickets, m)
    BY DEF FiledIn
  <2>2. Cardinality(HandsIn(tick', m)) <= Cardinality(HandsIn(tick, m))
    BY HandsAreTicks, FS_Subset
  <2>3. IsFiniteSet(FiledIn(tickets, m)) /\ Cardinality(FiledIn(tickets, m)) \in Nat /\ CommentOf(commented, m) \in Nat
    BY FS_CardinalityType DEF TakenUp, CommentOf
  <2> QED  BY <2>1, <2>2, <2>3, HandsAreTicks DEF TakenUp
<1>2. (\A row \in tickets' : row.from \in Messages => row.from \in seen') /\ \A m \in commented : m \in Replies /\ Collides(1)'
  BY DEF TakenUp, Collides
<1> QED  BY <1>1, <1>2 DEF TakenUp

LEMMA TickReadsKeeps ==
  ASSUME IntakeTypeOK, TakenUp, NEW t \in Ticks, TickReads(t) PROVE TakenUp'
<1>1. PICK m \in tick[t].batch, pc \in {"reading", "commented", "missed"}, who \in Messages \cup {NoMail} :
        /\ tick' = [tick EXCEPT ![t] = TickAt(pc, NoLink, tick[t].batch \ {m}, who)]
        /\ \/ pc = "reading" /\ seen \subseteq seen' /\ UNCHANGED commented
           \/ /\ pc = "commented" /\ m \notin seen /\ m \in Replies /\ Collides(1)
              /\ commented' = commented \cup {m} /\ UNCHANGED seen
           \/ /\ pc = "missed" /\ m \notin seen /\ who = m /\ ~(m \in Replies /\ Collides(1))
              /\ UNCHANGED <<seen, commented>>
  <2> DEFINE Took(m, pc, who) == tick' = [tick EXCEPT ![t] = TickAt(pc, NoLink, tick[t].batch \ {m}, who)]
  <2>1. PICK m \in tick[t].batch :
          \/ Took(m, "reading", NoMail) /\ seen \subseteq seen' /\ UNCHANGED commented
          \/ /\ Took(m, "commented", m) /\ m \notin seen /\ m \in Replies /\ Collides(1)
             /\ commented' = commented \cup {m} /\ UNCHANGED seen
          \/ /\ Took(m, "missed", m) /\ m \notin seen /\ ~(m \in Replies /\ Collides(1))
             /\ UNCHANGED <<seen, commented>>
    BY DEF TickReads, Reading
  <2>2. m \in Messages
    BY <2>1 DEF IntakeTypeOK, TickStates
  <2> HIDE DEF Took
  <2>3. \A x, pc, who : Took(x, pc, who) <=> tick' = [tick EXCEPT ![t] = TickAt(pc, NoLink, tick[t].batch \ {x}, who)]
    BY DEF Took
  <2> QED  BY <2>1, <2>2, <2>3
<1> DEFINE to == TickAt(pc, NoLink, tick[t].batch \ {m}, who)
<1>2. to.pc = pc /\ to.mail = who
  BY DEF TickAt
<1>3. UNCHANGED tickets /\ tick[t].pc = "reading" /\ m \in Messages
  BY <1>1 DEF TickReads, IntakeTypeOK, TickStates
<1> HIDE DEF to
<1>4. tick'[t] = to /\ \A d \in Ticks : d # t => tick'[d] = tick[d]
  BY <1>1 DEF to, IntakeTypeOK
<1>5. \A x \in Messages : (x # m \/ pc # "missed") => HandsIn(tick', x) \subseteq HandsIn(tick, x)
  BY <1>1, <1>2, <1>4 DEF HandsIn
<1>6. CASE pc = "reading"
  BY <1>1, <1>3, <1>5, <1>6, TakenUpStays
<1>7. CASE pc # "reading"
  <2>1. m \notin seen /\ UNCHANGED seen /\ Cardinality(FiledIn(tickets, m)) = 0
    BY <1>1, <1>3, <1>7, NothingFiledYet
  <2>2. commented \subseteq commented' /\ commented' \subseteq commented \cup {m}
        /\ \A x \in commented' : x \in Replies /\ Collides(1)
    BY <1>1, <1>7 DEF TakenUp
  <2>3. CommentOf(commented', m) + Cardinality(HandsIn(tick', m)) <= Cardinality(Ticks)
    <3>1. CASE pc = "commented"
      <4>1. HandsIn(tick', m) \in SUBSET (Ticks \ {t})
        BY <1>2, <1>4, <3>1 DEF HandsIn
      <4>2. IsFiniteSet(Ticks \ {t}) /\ Cardinality(Ticks \ {t}) = Cardinality(Ticks) - 1
        BY IntakeAssumption, FS_RemoveElement
      <4>3. Cardinality(HandsIn(tick', m)) <= Cardinality(Ticks) - 1
        BY <4>1, <4>2, FS_Subset
      <4> QED  BY <4>3, HandsAreTicks DEF CommentOf
    <3>2. CASE pc = "missed"
      <4>1. m \notin commented'
        BY <1>1, <3>2 DEF TakenUp
      <4> QED  BY <4>1, HandsAreTicks DEF CommentOf
    <3> QED  BY <1>7, <3>1, <3>2
  <2>4. ASSUME NEW x \in Messages
        PROVE  Cardinality(FiledIn(tickets, x)) + CommentOf(commented', x) + Cardinality(HandsIn(tick', x)) <= Cardinality(Ticks)
    <3>1. CASE x = m
      BY <2>1, <2>3, <3>1, HandsAreTicks DEF CommentOf
    <3>2. CASE x # m
      <4>1. Cardinality(HandsIn(tick', x)) <= Cardinality(HandsIn(tick, x))
        BY <1>5, <3>2, HandsAreTicks, FS_Subset
      <4>2. CommentOf(commented', x) = CommentOf(commented, x) /\ CommentOf(commented, x) \in Nat
        BY <2>2, <3>2 DEF CommentOf
      <4>3. Cardinality(FiledIn(tickets, x)) \in Nat
        BY FS_CardinalityType DEF TakenUp
      <4> QED  BY <4>1, <4>2, <4>3, HandsAreTicks DEF TakenUp
    <3> QED  BY <3>1, <3>2
  <2> QED  BY <1>3, <2>1, <2>2, <2>4 DEF TakenUp, Collides
<1> QED  BY <1>6, <1>7

LEMMA TickInsertsKeeps ==
  ASSUME IntakeTypeOK, TakenUp, NEW t \in Ticks, TickInserts(t) PROVE TakenUp'
<1> DEFINE m == tick[t].mail  new == [number |-> tick[t].number, from |-> m]
           to == Reading(tick[t].batch)
<1>1. /\ tick[t].pc = "numbered" /\ tickets' = tickets \cup {new} /\ seen' = seen \cup {m} /\ UNCHANGED commented
      /\ tick' = [tick EXCEPT ![t] = to]
  BY DEF TickInserts, File, IntakeTypeOK
<1>2. new.from = m /\ to.pc = "reading"
  BY DEF Reading, TickAt
<1>3. tick'[t] = to /\ \A d \in Ticks : d # t => tick'[d] = tick[d]
  BY <1>1 DEF IntakeTypeOK
<1> HIDE DEF new, to
<1>4. ASSUME NEW x \in Messages
      PROVE  /\ IsFiniteSet(FiledIn(tickets', x))
             /\ Cardinality(FiledIn(tickets', x)) + CommentOf(commented, x) + Cardinality(HandsIn(tick', x)) <= Cardinality(Ticks)
  <2>1. /\ IsFiniteSet(FiledIn(tickets, x)) /\ Cardinality(FiledIn(tickets, x)) \in Nat /\ CommentOf(commented, x) \in Nat
        /\ Cardinality(FiledIn(tickets, x)) + CommentOf(commented, x) + Cardinality(HandsIn(tick, x)) <= Cardinality(Ticks)
    BY FS_CardinalityType DEF TakenUp, CommentOf
  <2>2. CASE x = m
    <3>1. FiledIn(tickets', x) = FiledIn(tickets, x) \cup {new}
      BY <1>1, <1>2, <2>2 DEF FiledIn
    <3>2. IsFiniteSet(FiledIn(tickets', x)) /\ Cardinality(FiledIn(tickets', x)) \in Nat
          /\ Cardinality(FiledIn(tickets', x)) <= Cardinality(FiledIn(tickets, x)) + 1
      <4> DEFINE S == FiledIn(tickets, x)
      <4>1. IsFiniteSet(S) /\ Cardinality(S) \in Nat
        BY <2>1
      <4> HIDE DEF S
      <4>2. IsFiniteSet(S \cup {new}) /\ (Cardinality(S \cup {new}) = Cardinality(S) \/ Cardinality(S \cup {new}) = Cardinality(S) + 1)
        BY <4>1, FS_AddElement
      <4>3. Cardinality(S \cup {new}) \in Nat /\ Cardinality(S \cup {new}) <= Cardinality(S) + 1
        BY <4>1, <4>2
      <4> QED  BY <3>1, <4>2, <4>3 DEF S
    <3>3. t \in HandsIn(tick, x) /\ HandsIn(tick', x) \in SUBSET (HandsIn(tick, x) \ {t})
      BY <1>1, <1>2, <1>3, <2>2 DEF HandsIn
    <3>4. IsFiniteSet(HandsIn(tick, x) \ {t}) /\ Cardinality(HandsIn(tick, x) \ {t}) = Cardinality(HandsIn(tick, x)) - 1
      BY <3>3, HandsAreTicks, FS_RemoveElement
    <3>5. Cardinality(HandsIn(tick', x)) <= Cardinality(HandsIn(tick, x)) - 1
      BY <3>3, <3>4, FS_Subset
    <3> QED  BY <2>1, <3>2, <3>5, HandsAreTicks
  <2>3. CASE x # m
    <3>1. FiledIn(tickets', x) = FiledIn(tickets, x)
      BY <1>1, <1>2, <2>3 DEF FiledIn
    <3>2. HandsIn(tick', x) \subseteq HandsIn(tick, x)
      BY <1>2, <1>3 DEF HandsIn
    <3>3. Cardinality(HandsIn(tick', x)) <= Cardinality(HandsIn(tick, x))
      BY <3>2, HandsAreTicks, FS_Subset
    <3> QED  BY <2>1, <3>1, <3>3, HandsAreTicks
  <2> QED  BY <2>2, <2>3
<1>5. (\A row \in tickets' : row.from \in Messages => row.from \in seen') /\ \A x \in commented : x \in Replies /\ Collides(1)'
  BY <1>1, <1>2 DEF TakenUp, Collides
<1> QED  BY <1>1, <1>4, <1>5 DEF TakenUp

LEMMA TakenUpStep == IntakeTypeOK /\ TakenUp /\ [IntakeNext]_intakeVars => TakenUp'
<1> SUFFICES ASSUME IntakeTypeOK, TakenUp, [IntakeNext]_intakeVars PROVE TakenUp'
  OBVIOUS
<1>1. ASSUME UNCHANGED <<tickets, tick, seen, commented>> PROVE TakenUp'
  BY <1>1, TakenUpStays
<1>2. CASE UNCHANGED intakeVars
  BY <1>1, <1>2 DEF intakeVars, mailVars
<1>3. ASSUME NEW m \in Messages, MailArrives(m) \/ MailIsListedAgain(m) PROVE TakenUp'
  BY <1>1, <1>3 DEF MailArrives, MailIsListedAgain
<1>4. ASSUME NEW c \in Callers, SyncReads(c) \/ CallNumbers(c) \/ CallAborts(c) PROVE TakenUp'
  BY <1>1, <1>4 DEF SyncReads, CallNumbers, CallAborts, mailVars
<1>5. ASSUME NEW c \in Callers, CallInserts(c) PROVE TakenUp'
  <2> DEFINE source == IF c \in Syncs THEN Item ELSE c
             new    == [number |-> call[c].number, from |-> source]
  <2>1. UNCHANGED <<tick, seen, commented>> /\ (UNCHANGED tickets \/ tickets' = tickets \cup {new})
    BY <1>5 DEF CallInserts, File, mailVars
  <2>2. new.from \notin Messages
    BY IntakeAssumption DEF Callers
  <2> HIDE DEF new
  <2> QED  BY <2>1, <2>2, TakenUpStays
<1>6. ASSUME NEW t \in Ticks, NEW to, tick' = [tick EXCEPT ![t] = to], UNCHANGED <<tickets, commented>>, seen \subseteq seen',
             to.pc \in {"missed", "numbered"} => tick[t].pc \in {"missed", "numbered"} /\ to.mail = tick[t].mail
      PROVE  TakenUp'
  <2>1. tick'[t] = to /\ \A d \in Ticks : d # t => tick'[d] = tick[d]
    BY <1>6 DEF IntakeTypeOK
  <2>2. \A m \in Messages : HandsIn(tick', m) \subseteq HandsIn(tick, m)
    BY <1>6, <2>1 DEF HandsIn
  <2> QED  BY <1>6, <2>2, TakenUpStays
<1>7. ASSUME NEW t \in Ticks,
             TickOpens(t) \/ TickFetches(t) \/ TickStores(t) \/ TickMarks(t) \/ TickEnds(t) \/ TickDies(t)
      PROVE  TakenUp'
  <2>1. PICK to : /\ tick' = [tick EXCEPT ![t] = to] /\ to.pc \in {"opened", "fetched", "reading", "idle"}
                  /\ UNCHANGED <<tickets, commented>> /\ seen \subseteq seen'
    <3>1. \A pc, l, b : TickAt(pc, l, b, NoMail).pc = pc
      BY DEF TickAt
    <3>2. UNCHANGED <<tickets, commented>> /\ seen \subseteq seen'
      BY <1>7 DEF TickOpens, TickFetches, TickStores, TickMarks, TickEnds, TickDies
    <3>3. \E pc \in {"opened", "fetched", "reading", "idle"} : \E l, b : tick' = [tick EXCEPT ![t] = TickAt(pc, l, b, NoMail)]
      BY <1>7 DEF TickOpens, TickFetches, TickStores, TickMarks, TickEnds, TickDies, NoTick, Reading, IntakeTypeOK
    <3> QED  BY <3>1, <3>2, <3>3
  <2> QED  BY <1>6, <2>1
<1>8. ASSUME NEW t \in Ticks, TickNumbers(t) PROVE TakenUp'
  <2> DEFINE to == [tick[t] EXCEPT !.pc = "numbered", !.number = NextNumber]
  <2>1. to.mail = tick[t].mail
    BY DEF IntakeTypeOK, TickStates
  <2>2. /\ tick[t].pc = "missed" /\ UNCHANGED <<tickets, commented, seen>>
        /\ tick' = [tick EXCEPT ![t] = to]
    BY <1>8 DEF TickNumbers
  <2> HIDE DEF to
  <2> QED  BY <1>6, <2>1, <2>2
<1> QED  BY <1>2, <1>3, <1>4, <1>5, <1>7, <1>8, TickReadsKeeps, TickInsertsKeeps DEF IntakeNext, Callers

(* For any number of callers and of ticks that overlap, whatever Graph     *)
(* lists again and wherever a tick dies: no filing is refused for another, *)
(* and no mail is filed more often than there are ticks, which one at a    *)
(* time is once (tickets.ts, nextTicketNumber; integration-tickets.ts;     *)
(* ingestMessage).                                                         *)
THEOREM FilingsAreExact == IntakeSpec => []FilingIsExact
<1>1. IntakeInit => TakenUp
  <2> SUFFICES ASSUME IntakeInit PROVE TakenUp
    OBVIOUS
  <2>1. tickets = {} /\ commented = {} /\ \A m \in Messages : FiledIn(tickets, m) = {} /\ CommentOf(commented, m) = 0
    BY DEF IntakeInit, FiledIn, CommentOf
  <2> QED  BY <2>1, FS_EmptySet, HandsAreTicks DEF TakenUp
<1>2. IntakeIInv /\ TakenUp /\ [IntakeNext]_intakeVars => TakenUp'
  BY TakenUpStep DEF IntakeIInv
<1>3. TakenUp => TakenUpOnce
  BY DEF TakenUp, TakenUpOnce, Outcomes, InHand, FiledIn, HandsIn, CommentOf
<1>4. IntakeSpec => []TakenUp
  BY <1>1, <1>2, IntakeInitOK, IntakeStep, PTL DEF IntakeSpec
<1> QED  BY <1>3, <1>4, FilingNeverFails, PTL DEF FilingIsExact

-----------------------------------------------------------------------------
(* RequestForms: a form reads as it was submitted.                         *)

(* Until it is submitted or attached, a form has no answer.                *)
UnsubmittedIsBlank ==
  request = "none" => custom = Nothing /\ described = Empty /\ kept = {} /\ ~attached /\ subject = NoSubject

FormIInv == UnsubmittedIsBlank /\ ReadsAsSubmitted

(* What one reads back of answers that were submitted, whichever way.      *)
LEMMA FirstAnswers ==
  ASSUME UnsubmittedIsBlank, NEW ans \in Answers, SubmitForm(ans) \/ AttachForm(ans)
  PROVE  FormIInv'
<1> USE FormAssumption
<1> DEFINE shown(f) == IF IsVisible(f, ans) THEN ans[f] ELSE Empty
<1>1. request' # "none" /\ Missing(ans) = {}
  BY DEF SubmitForm, AttachForm
<1>2. \A f \in Fields \ Sensitive : Current'[f] = shown(f)
  <2>1. CASE SubmitForm(ans)
    BY <2>1 DEF SubmitForm, Current, Normal, IsVisible
  <2>2. CASE AttachForm(ans)
    BY <2>2 DEF AttachForm, Current, Normal, IsVisible, UnsubmittedIsBlank
  <2> QED  BY <2>1, <2>2
<1>3. \A f \in Sensitive : /\ Current'[f] # Empty => IsVisible(f, ans)
                           /\ custom'[f] = Empty
  <2>1. CASE SubmitForm(ans)
    BY <2>1 DEF SubmitForm, Current, Normal, KeptApart
  <2>2. CASE AttachForm(ans)
    BY <2>2 DEF AttachForm, Current, Normal, UnsubmittedIsBlank
  <2> QED  BY <2>1, <2>2
<1>4. Current'[Selector] = ans[Selector]
  BY <1>2 DEF IsVisible
<1>5. \A f : IsVisible(f, Current)' = IsVisible(f, ans)
  BY <1>4 DEF IsVisible
<1>6. HiddenIsGone'
  BY <1>2, <1>3, <1>5 DEF HiddenIsGone
<1>7. RequiredIsAnswered'
  BY <1>1, <1>2, <1>5 DEF RequiredIsAnswered, Missing
<1>8. SubjectFollows'
  BY DEF SubmitForm, AttachForm, SubjectFollows, ComposedOf, Normal
<1> QED  BY <1>1, <1>6, <1>7, <1>8 DEF FormIInv, UnsubmittedIsBlank, ReadsAsSubmitted

(* What an edit leaves reads as the answers it was checked on, but for     *)
(* those it hides; a description that the form has twice stays answered.   *)
LEMMA EditReads ==
  ASSUME NEW patch \in Patches, EditForm(patch), \A f \in Sensitive : custom[f] = Empty
  PROVE  LET merged == Merged(patch) IN
         /\ \A f \in Fields : merged[f] = IF f \in DOMAIN patch THEN patch[f] ELSE Current[f]
         /\ \A f \in Fields \ {Describes} :
              Current'[f] = IF f \in Hidden(patch) THEN Empty
                            ELSE IF f \in Sensitive THEN IF merged[f] = Empty THEN Empty ELSE Stored ELSE merged[f]
         /\ merged[Describes] # Empty => Current'[Describes] # Empty
         /\ Current'[Selector] = merged[Selector]
         /\ \A f \in Sensitive : custom'[f] = Empty
<1> USE FormAssumption
<1> DEFINE merged == Merged(patch)
<1>1. DOMAIN patch \subseteq Fields
  BY DEF Patches
<1>2. \A f \in Fields : merged[f] = IF f \in DOMAIN patch THEN patch[f] ELSE Current[f]
  BY <1>1 DEF Merged
<1>3. \A f \in Hidden(patch) : f \in Conditional /\ f \in Fields \ DOMAIN patch
  BY DEF Hidden, IsVisible
<1>4. \A f \in Fields : custom'[f] = IF f \in Hidden(patch) THEN Empty
                                     ELSE IF f \in DOMAIN patch /\ f \notin Sensitive \cup {Describes} THEN patch[f]
                                     ELSE custom[f]
  BY <1>3 DEF EditForm
<1>5. Stored # Empty
  BY DEF Stored, Empty
<1> HIDE DEF merged
<1>6. ASSUME NEW f \in Sensitive
      PROVE  Current'[f] = IF f \in Hidden(patch) \/ merged[f] = Empty THEN Empty ELSE Stored
  BY <1>5 DEF EditForm, Current, merged
<1>7. ASSUME NEW f \in Fields \ (Sensitive \cup {Describes})
      PROVE  Current'[f] = IF f \in Hidden(patch) THEN Empty ELSE merged[f]
  BY <1>2, <1>4 DEF Current
<1>8. merged[Describes] # Empty => Current'[Describes] # Empty
  <2>1. Describes \notin Hidden(patch) /\ Describes \notin Sensitive
    BY <1>3
  <2>2. custom'[Describes] = custom[Describes]
    BY <1>4, <2>1
  <2>3. described' = IF Describes \in DOMAIN patch /\ patch[Describes] # Current[Describes]
                       THEN patch[Describes] ELSE described
    BY DEF EditForm
  <2> QED  BY <1>2, <2>1, <2>2, <2>3 DEF Current
<1>9. Selector \notin Hidden(patch)
  BY <1>3
<1> QED  BY <1>2, <1>4, <1>6, <1>7, <1>8, <1>9 DEF merged

LEMMA EditKeeps == ASSUME FormIInv, NEW patch \in Patches, EditForm(patch) PROVE FormIInv'
<1> USE FormAssumption
<1> DEFINE merged == Merged(patch)
<1>1. request = "open" /\ request' = "open" /\ HiddenIsGone /\ RequiredIsAnswered /\ SubjectFollows /\ Accepts(patch)
  BY DEF EditForm, FormIInv, ReadsAsSubmitted
<1>2. /\ \A f \in Fields : merged[f] = IF f \in DOMAIN patch THEN patch[f] ELSE Current[f]
      /\ \A f \in Fields \ {Describes} :
           Current'[f] = IF f \in Hidden(patch) THEN Empty
                         ELSE IF f \in Sensitive THEN IF merged[f] = Empty THEN Empty ELSE Stored ELSE merged[f]
      /\ merged[Describes] # Empty => Current'[Describes] # Empty
      /\ Current'[Selector] = merged[Selector]
      /\ \A f \in Sensitive : custom'[f] = Empty
  BY <1>1, EditReads DEF HiddenIsGone
<1> HIDE DEF merged
<1>3. \A f : IsVisible(f, Current)' = IsVisible(f, merged)
  BY <1>2 DEF IsVisible
<1>4. /\ \A f \in DOMAIN patch : patch[f] # Empty => IsVisible(f, merged)
      /\ \A f \in Missing(merged) : f \notin DOMAIN patch /\ IsVisible(f, Current)
  BY <1>1 DEF Accepts, merged
<1>5. Hidden(patch) = {f \in Fields \ DOMAIN patch : IsVisible(f, Current) /\ ~IsVisible(f, merged)}
  BY DEF Hidden, merged
<1>6. HiddenIsGone'
  <2>1. ASSUME NEW f \in Fields, Current'[f] # Empty PROVE IsVisible(f, merged)
    <3>1. CASE f = Describes
      BY <3>1 DEF IsVisible
    <3>2. CASE f # Describes
      <4>1. f \notin Hidden(patch) /\ merged[f] # Empty
        BY <1>2, <2>1, <3>2
      <4>2. CASE f \in DOMAIN patch
        BY <1>2, <1>4, <4>1, <4>2
      <4>3. CASE f \notin DOMAIN patch
        BY <1>1, <1>2, <1>5, <4>1, <4>3 DEF HiddenIsGone
      <4> QED  BY <4>2, <4>3
    <3> QED  BY <3>1, <3>2
  <2> QED  BY <1>2, <1>3, <2>1 DEF HiddenIsGone
<1>7. RequiredIsAnswered'
  <2> SUFFICES ASSUME NEW f \in Required, IsVisible(f, merged), Current'[f] = Empty, f \notin Sensitive PROVE FALSE
    BY <1>3 DEF RequiredIsAnswered, Missing
  <2>1. merged[f] = Empty
    BY <1>2, <1>5
  <2>2. f \in Missing(merged)
    BY <2>1 DEF Missing
  <2>3. f \in Missing(Current)
    BY <1>2, <1>4, <2>1, <2>2 DEF Missing
  <2> QED  BY <1>1, <2>3 DEF RequiredIsAnswered
<1>8. SubjectFollows'
  <2>1. subject' = Recomposed(patch, custom') /\ attached' = attached
    BY DEF EditForm
  <2> QED  BY <1>1, <2>1 DEF SubjectFollows, Recomposed
<1> QED  BY <1>1, <1>6, <1>7, <1>8 DEF FormIInv, UnsubmittedIsBlank, ReadsAsSubmitted

LEMMA FormStep == FormIInv /\ [FormNext]_formVars => FormIInv'
<1> SUFFICES ASSUME FormIInv, [FormNext]_formVars PROVE FormIInv'
  OBVIOUS
<1> USE FormAssumption
<1>1. CASE UNCHANGED formVars
  BY <1>1 DEF formVars, FormIInv, UnsubmittedIsBlank, ReadsAsSubmitted, HiddenIsGone, RequiredIsAnswered, SubjectFollows,
              Current, Missing, IsVisible, ComposedOf
<1>2. ASSUME NEW ans \in Answers, SubmitForm(ans) \/ AttachForm(ans) PROVE FormIInv'
  BY <1>2, FirstAnswers DEF FormIInv
<1>3. ASSUME NEW patch \in Patches, EditForm(patch) PROVE FormIInv'
  BY <1>3, EditKeeps
<1>4. CASE RequestMoves
  <2>1. request # "none" /\ request' # "none" /\ UNCHANGED <<attached, custom, described, subject>> /\ kept' \in {{}, kept}
    BY <1>4 DEF RequestMoves
  <2>2. HiddenIsGone /\ RequiredIsAnswered /\ SubjectFollows
    BY <2>1 DEF FormIInv, ReadsAsSubmitted
  <2>3. /\ \A f \in Fields \ Sensitive : Current'[f] = Current[f]
        /\ \A f \in Sensitive : Current'[f] \in {Empty, Current[f]}
    BY <2>1 DEF Current
  <2>4. \A f : IsVisible(f, Current)' = IsVisible(f, Current)
    BY <2>3 DEF IsVisible
  <2>5. HiddenIsGone'
    BY <2>1, <2>2, <2>3, <2>4 DEF HiddenIsGone
  <2>6. RequiredIsAnswered'
    BY <2>2, <2>3, <2>4 DEF RequiredIsAnswered, Missing
  <2> QED  BY <2>1, <2>2, <2>5, <2>6 DEF FormIInv, UnsubmittedIsBlank, ReadsAsSubmitted, SubjectFollows
<1> QED  BY <1>1, <1>2, <1>3, <1>4 DEF FormNext

(* However often it is corrected, a form reads as if it had been submitted *)
(* that way, for any fields, conditions and answers (forms.ts).            *)
THEOREM FormsReadAsSubmitted == FormSpec => []ReadsAsSubmitted
<1>1. FormInit => FormIInv
  BY DEF FormInit, FormIInv, UnsubmittedIsBlank, ReadsAsSubmitted
<1>2. FormIInv => ReadsAsSubmitted
  BY DEF FormIInv
<1> QED  BY <1>1, <1>2, FormStep, PTL DEF FormSpec

-----------------------------------------------------------------------------
(* Surveys: a resolution asks for one rating.                              *)

SurveyRows == [state : {"none", "open", "answered"}, link : BOOLEAN]

SurveyTypeOK ==
  /\ ratable \in BOOLEAN /\ published \in Nat /\ unhandled \in Nat /\ invited \in Nat /\ linkOk \in Nat
  /\ survey \in SurveyRows
  /\ answer \in [Links \cup Raters -> {"idle", "found", "read"}]

(* The row comes before the mail, and the mail before an answer through    *)
(* its link; the link is spent on the answer that closes the survey.       *)
RowThenMailThenAnswer ==
  /\ invited > 0 => survey.state # "none"
  /\ linkOk > 0 => survey.state = "answered"
  /\ \A a \in Links : answer[a] = "read" => invited > 0

SurveyIInv == SurveyTypeOK /\ RowThenMailThenAnswer /\ AskedOnce

LEMMA SurveyInitOK == SurveysInit => SurveyIInv
<1> SUFFICES ASSUME SurveysInit PROVE SurveyIInv
  OBVIOUS
<1>1. SurveyTypeOK
  BY DEF SurveysInit, SurveyTypeOK, SurveyRows
<1>2. RowThenMailThenAnswer
  BY DEF SurveysInit, RowThenMailThenAnswer
<1>3. AskedOnce
  BY DEF SurveysInit, AskedOnce
<1> QED  BY <1>1, <1>2, <1>3 DEF SurveyIInv

LEMMA SurveyStep == SurveyIInv /\ [SurveysNext]_surveyVars => SurveyIInv'
<1> SUFFICES ASSUME SurveyIInv, [SurveysNext]_surveyVars PROVE SurveyIInv'
  OBVIOUS
<1> USE SurveysAssumption DEF SurveyIInv
<1>0. /\ [state |-> "open", link |-> TRUE] \in SurveyRows /\ [state |-> "open", link |-> FALSE] \in SurveyRows
      /\ [survey EXCEPT !.state = "answered"] \in SurveyRows
      /\ [survey EXCEPT !.state = "answered"].state = "answered"
  BY DEF SurveyTypeOK, SurveyRows
<1>1. CASE Publish \/ TicketMoves \/ UNCHANGED surveyVars
  <2>0. ratable' \in BOOLEAN
    <3>1. CASE TicketMoves
      BY <3>1 DEF TicketMoves
    <3> QED  BY <1>1, <3>1 DEF Publish, surveyVars, resolutionVars, SurveyTypeOK
  <2>1. SurveyTypeOK'
    <3>1. CASE Publish
      BY <2>0, <3>1 DEF Publish, SurveyTypeOK
    <3> QED  BY <1>1, <2>0, <3>1 DEF TicketMoves, surveyVars, resolutionVars, SurveyTypeOK
  <2>2. RowThenMailThenAnswer' /\ AskedOnce'
    BY <1>1 DEF Publish, TicketMoves, surveyVars, resolutionVars, SurveyTypeOK, RowThenMailThenAnswer, AskedOnce
  <2> QED  BY <2>1, <2>2
<1>2. CASE IssueSurvey
  <2>0. survey' \in SurveyRows
    BY <1>0, <1>2 DEF IssueSurvey, SurveyTypeOK
  <2>1. SurveyTypeOK'
    BY <2>0, <1>2 DEF IssueSurvey, resolutionVars, SurveyTypeOK
  <2>2. RowThenMailThenAnswer' /\ AskedOnce'
    BY <1>0, <1>2 DEF IssueSurvey, resolutionVars, SurveyTypeOK, RowThenMailThenAnswer, AskedOnce
  <2> QED  BY <2>1, <2>2
<1>3. CASE SurveyIsLost
  <2>0. survey' \in SurveyRows
    BY <1>0, <1>3 DEF SurveyIsLost, SurveyTypeOK
  <2>1. SurveyTypeOK'
    BY <2>0, <1>3 DEF SurveyIsLost, resolutionVars, SurveyTypeOK
  <2>2. RowThenMailThenAnswer' /\ AskedOnce'
    BY <1>0, <1>3 DEF SurveyIsLost, resolutionVars, SurveyTypeOK, RowThenMailThenAnswer, AskedOnce
  <2> QED  BY <2>1, <2>2
<1>4. ASSUME NEW a \in Links, LinkReads(a) PROVE SurveyIInv'
  <2>1. SurveyTypeOK'
    BY <1>4 DEF LinkReads, resolutionVars, SurveyTypeOK
  <2>2. RowThenMailThenAnswer' /\ AskedOnce'
    BY <1>4 DEF LinkReads, resolutionVars, SurveyTypeOK, RowThenMailThenAnswer, AskedOnce
  <2> QED  BY <2>1, <2>2
<1>5. ASSUME NEW a \in Links, LinkWrites(a) PROVE SurveyIInv'
  <2>1. SurveyTypeOK'
    BY <1>0, <1>5 DEF LinkWrites, resolutionVars, SurveyTypeOK
  <2>2. RowThenMailThenAnswer' /\ AskedOnce'
    BY <1>0, <1>5 DEF LinkWrites, resolutionVars, SurveyTypeOK, RowThenMailThenAnswer, AskedOnce
  <2> QED  BY <2>1, <2>2
<1>6. ASSUME NEW a \in Raters, RaterFinds(a) \/ RaterReads(a) PROVE SurveyIInv'
  <2>1. SurveyTypeOK'
    BY <1>0, <1>6 DEF RaterFinds, RaterReads, resolutionVars, SurveyTypeOK
  <2>2. RowThenMailThenAnswer' /\ AskedOnce'
    BY <1>0, <1>6 DEF RaterFinds, RaterReads, resolutionVars, SurveyTypeOK, RowThenMailThenAnswer, AskedOnce
  <2> QED  BY <2>1, <2>2
<1>7. ASSUME NEW a \in Raters, RaterWrites(a) PROVE SurveyIInv'
  <2>1. SurveyTypeOK'
    BY <1>0, <1>7 DEF RaterWrites, resolutionVars, SurveyTypeOK
  <2>2. RowThenMailThenAnswer' /\ AskedOnce'
    BY <1>0, <1>7 DEF RaterWrites, resolutionVars, SurveyTypeOK, RowThenMailThenAnswer, AskedOnce
  <2> QED  BY <2>1, <2>2
<1>8. ASSUME NEW a \in Links \cup Raters, AnswerFails(a) PROVE SurveyIInv'
  <2>1. SurveyTypeOK'
    BY <1>8 DEF AnswerFails, resolutionVars, SurveyTypeOK
  <2>2. RowThenMailThenAnswer' /\ AskedOnce'
    BY <1>8 DEF AnswerFails, resolutionVars, SurveyTypeOK, RowThenMailThenAnswer, AskedOnce
  <2> QED  BY <2>1, <2>2
<1> HIDE DEF SurveyIInv
<1> QED  BY <1>1, <1>2, <1>3, <1>4, <1>5, <1>6, <1>7, <1>8 DEF SurveysNext

(* The requester is invited once, and one answer through the link accepted, *)
(* however many resolutions and answers there are.                         *)
THEOREM SurveyAskedOnce == SurveysSpec => []AskedOnce
<1>1. SurveyIInv => AskedOnce
  BY DEF SurveyIInv
<1> QED  BY <1>1, SurveyInitOK, SurveyStep, PTL DEF SurveysSpec

-----------------------------------------------------------------------------
(* StaffAccess: access is never lost to a change of the account.           *)

AccountStates == {"none", "active", "suspended", "deleted", "gone"}
OpSteps == {"idle", "loaded", "clearing", "cleared", "inserted", "removed"}

OpRows == [pc : OpSteps, kind : Operations \cup {"none"}, of : Staff \cup {"none"},
           access : SUBSET Roles, cleared : SUBSET Roles, hard : BOOLEAN]

StaffTypeOK ==
  /\ account \in [Staff -> AccountStates] /\ named \in [Staff -> BOOLEAN]
  /\ grants \in [Staff -> SUBSET Roles]
  /\ op \in [Admins -> OpRows]

(* An operation is about an account that exists or existed, and one that   *)
(* changes access brings a role.                                           *)
Founded(row) ==
  row.pc # "idle" => /\ row.of \in Staff /\ account[row.of] # "none"
                     /\ row.kind = "access" => row.access # {}
                     /\ row.pc = "inserted" => row.kind = "access"

OpIsFounded == \A a \in Admins : Founded(op[a])

(* A tombstone has lost its name for good.                                 *)
TombstonesUnnamed == \A s \in Staff : account[s] = "deleted" => ~named[s]

StaffIInv == StaffTypeOK /\ OpIsFounded /\ TombstonesUnnamed /\ AccessNeverLost

LEMMA StaffInitOK == StaffInit => StaffIInv
BY StaffAssumption DEF StaffInit, StaffIInv, StaffTypeOK, OpIsFounded, Founded, TombstonesUnnamed, AccessNeverLost, NoOp,
       AccountStates, OpSteps, OpRows, Live

(* A step of an operation that commits nothing.                            *)
LEMMA OpMoves ==
  ASSUME StaffIInv, NEW a \in Admins, NEW to \in OpRows, Founded(to), op' = [op EXCEPT ![a] = to],
         UNCHANGED <<account, named, grants>>
  PROVE  StaffIInv'
<1> USE DEF StaffIInv
<1>1. StaffTypeOK'
  BY DEF StaffTypeOK
<1>2. \A b \in Admins : op'[b] = IF b = a THEN to ELSE op[b]
  BY DEF StaffTypeOK
<1>3. OpIsFounded' /\ TombstonesUnnamed' /\ AccessNeverLost'
  BY <1>2 DEF OpIsFounded, Founded, TombstonesUnnamed, AccessNeverLost, Live
<1> QED  BY <1>1, <1>3

(* Operations that commit: what they do to their account.                  *)
LEMMA OpCommits ==
  ASSUME StaffIInv, NEW a \in Admins, op[a].pc # "idle", op' = [op EXCEPT ![a] = NoOp],
         NEW s \in Staff, op[a].of = s, NEW state \in AccountStates \ {"none"}, NEW remain \in SUBSET Roles,
         NEW name \in BOOLEAN,
         account' = [account EXCEPT ![s] = state], named' = [named EXCEPT ![s] = name],
         grants' = [grants EXCEPT ![s] = remain],
         state = "deleted" => ~name, state \in {"active", "suspended"} /\ name => remain # {}
  PROVE  StaffIInv'
<1> USE DEF StaffIInv
<1>1. StaffTypeOK'
  BY DEF StaffTypeOK, NoOp, OpRows, OpSteps
<1>2. /\ \A b \in Admins : op'[b] = IF b = a THEN NoOp ELSE op[b]
      /\ \A r \in Staff : /\ account'[r] = IF r = s THEN state ELSE account[r]
                          /\ named'[r] = IF r = s THEN name ELSE named[r]
                          /\ grants'[r] = IF r = s THEN remain ELSE grants[r]
  BY DEF StaffTypeOK
<1>3. OpIsFounded'
  BY <1>2 DEF OpIsFounded, Founded, NoOp
<1>4. TombstonesUnnamed' /\ AccessNeverLost'
  BY <1>2 DEF TombstonesUnnamed, AccessNeverLost, Live
<1> QED  BY <1>1, <1>3, <1>4

LEMMA StaffStep == StaffIInv /\ [StaffNext]_staffVars => StaffIInv'
<1> SUFFICES ASSUME StaffIInv, [StaffNext]_staffVars PROVE StaffIInv'
  OBVIOUS
<1> USE StaffAssumption DEF StaffIInv, AccountStates, OpSteps
<1>0. NoOp \in OpRows /\ NoOp.pc = "idle"
  BY DEF NoOp, OpRows
<1>1. ASSUME NEW s \in Staff, CreateStaff(s) PROVE StaffIInv'
  <2>1. PICK access \in (SUBSET Roles) \ {{}} : grants' = [grants EXCEPT ![s] = access]
    BY <1>1 DEF CreateStaff, Accesses
  <2>2. StaffTypeOK' /\ OpIsFounded' /\ TombstonesUnnamed'
    BY <1>1, <2>1 DEF CreateStaff, StaffTypeOK, OpIsFounded, Founded, TombstonesUnnamed
  <2>3. /\ grants'[s] # {} /\ \A r \in Staff \ {s} : grants'[r] = grants[r]
        /\ \A r \in Staff \ {s} : account'[r] = account[r]
    <3>1. grants'[s] = access /\ \A r \in Staff \ {s} : grants'[r] = grants[r]
      BY <2>1 DEF StaffTypeOK
    <3> QED  BY <1>1, <2>1, <3>1 DEF CreateStaff, StaffTypeOK
  <2>4. AccessNeverLost'
    BY <1>1, <2>3 DEF CreateStaff, AccessNeverLost, Live
  <2> QED  BY <2>2, <2>4
<1>2. ASSUME NEW s \in Staff, SignInGrants(s) PROVE StaffIInv'
  <2>1. StaffTypeOK' /\ OpIsFounded' /\ TombstonesUnnamed'
    BY <1>2 DEF SignInGrants, StaffTypeOK, OpIsFounded, Founded, TombstonesUnnamed
  <2>2. \A r \in Staff : grants[r] \subseteq grants'[r]
    BY <1>2 DEF SignInGrants, StaffTypeOK
  <2>3. AccessNeverLost'
    BY <1>2, <2>2 DEF SignInGrants, AccessNeverLost, Live
  <2> QED  BY <2>1, <2>3
<1>3. ASSUME NEW s \in Staff, NEW a \in Admins, LoadTarget(a, s) PROVE StaffIInv'
  <2>0. PICK kind \in Operations, superAdmin \in BOOLEAN :
          \E access \in IF kind = "access" THEN Accesses(superAdmin) ELSE {{}} :
            op' = [op EXCEPT ![a] = [NoOp EXCEPT !.pc = "loaded", !.kind = kind, !.of = s, !.access = access]]
    BY <1>0, <1>3 DEF LoadTarget
  <2>1. PICK access \in IF kind = "access" THEN Accesses(superAdmin) ELSE {{}} :
          op' = [op EXCEPT ![a] = [NoOp EXCEPT !.pc = "loaded", !.kind = kind, !.of = s, !.access = access]]
    BY <2>0
  <2>2. access \in SUBSET Roles /\ (kind = "access" => access # {})
    <3>1. CASE kind = "access"
      <4>1. Accesses(superAdmin) \subseteq (SUBSET Roles) \ {{}}
        BY DEF Accesses
      <4> QED  BY <2>1, <3>1, <4>1
    <3>2. CASE kind # "access"
      BY <2>1, <3>2
    <3> QED  BY <3>1, <3>2
  <2> DEFINE to == [NoOp EXCEPT !.pc = "loaded", !.kind = kind, !.of = s, !.access = access]
  <2>3. to \in OpRows /\ to.pc = "loaded" /\ to.kind = kind /\ to.of = s /\ to.access = access
    BY <2>2 DEF NoOp, OpRows
  <2>4. account[s] # "none"
    BY <1>0, <1>3 DEF LoadTarget, Live
  <2>5. Founded(to)
    BY <2>2, <2>3, <2>4 DEF Founded
  <2> HIDE DEF to
  <2> QED  BY <1>3, <2>1, <2>3, <2>5, OpMoves DEF LoadTarget, to
<1>4. ASSUME NEW a \in Admins, NEW step \in OpSteps, NEW remain \in SUBSET Roles, NEW hard \in BOOLEAN,
             op[a].pc # "idle", step = "inserted" => op[a].kind = "access",
             op' = [op EXCEPT ![a] = [op[a] EXCEPT !.pc = step, !.cleared = remain, !.hard = hard]],
             UNCHANGED <<account, named, grants>>
      PROVE  StaffIInv'
  <2> DEFINE to == [op[a] EXCEPT !.pc = step, !.cleared = remain, !.hard = hard]
  <2>1. op[a] \in OpRows /\ Founded(op[a])
    BY DEF StaffTypeOK, OpIsFounded
  <2>2. to \in OpRows /\ to.pc = step /\ to.kind = op[a].kind /\ to.of = op[a].of /\ to.access = op[a].access
    BY <2>1 DEF OpRows
  <2>3. Founded(to)
    BY <1>4, <2>1, <2>2 DEF Founded
  <2> HIDE DEF to
  <2> QED  BY <1>4, <2>2, <2>3, OpMoves DEF to
<1>5. ASSUME NEW a \in Admins, \/ BeginClear(a) \/ EndClear(a) \/ InsertGrants(a) \/ RemoveAccount(a)
      PROVE  StaffIInv'
  <2>1. op[a] \in OpRows /\ op[a].hard \in BOOLEAN /\ op[a].cleared \in SUBSET Roles
    BY DEF StaffTypeOK, OpRows
  <2>2. CASE BeginClear(a)
    <3>1. grants[op[a].of] \in SUBSET Roles
      BY <2>2 DEF BeginClear, OpIsFounded, Founded, StaffTypeOK
    <3>2. op' = [op EXCEPT ![a] = [op[a] EXCEPT !.pc = "clearing", !.cleared = grants[op[a].of], !.hard = op[a].hard]]
      BY <2>1, <2>2 DEF BeginClear, OpRows, StaffTypeOK
    <3> QED  BY <1>4, <2>1, <2>2, <3>1, <3>2 DEF BeginClear
  <2>3. CASE EndClear(a)
    <3>1. op' = [op EXCEPT ![a] = [op[a] EXCEPT !.pc = "cleared", !.cleared = op[a].cleared \cap grants[op[a].of],
                                               !.hard = op[a].hard]]
      BY <2>1, <2>3 DEF EndClear, OpRows, StaffTypeOK
    <3> QED  BY <1>4, <2>1, <2>3, <3>1 DEF EndClear
  <2>4. CASE InsertGrants(a)
    <3>1. op' = [op EXCEPT ![a] = [op[a] EXCEPT !.pc = "inserted", !.cleared = op[a].cleared, !.hard = op[a].hard]]
      BY <2>1, <2>4 DEF InsertGrants, OpRows, StaffTypeOK
    <3> QED  BY <1>4, <2>1, <2>4, <3>1 DEF InsertGrants
  <2>5. CASE RemoveAccount(a)
    <3>1. PICK hard \in BOOLEAN : op' = [op EXCEPT ![a].pc = "removed", ![a].hard = hard]
      BY <2>5 DEF RemoveAccount
    <3>2. op' = [op EXCEPT ![a] = [op[a] EXCEPT !.pc = "removed", !.cleared = op[a].cleared, !.hard = hard]]
      BY <2>1, <3>1 DEF OpRows, StaffTypeOK
    <3> QED  BY <1>4, <2>1, <2>5, <3>2 DEF RemoveAccount
  <2> QED  BY <1>5, <2>2, <2>3, <2>4, <2>5
<1>6. ASSUME NEW a \in Admins, AdminFails(a) PROVE StaffIInv'
  <2>1. Founded(NoOp)
    BY <1>0 DEF Founded
  <2> QED  BY <1>0, <1>6, <2>1, OpMoves DEF AdminFails
<1>7. ASSUME NEW a \in Admins, SetStatus(a) \/ CommitAccess(a) \/ CommitRemoval(a) PROVE StaffIInv'
  <2> DEFINE s == op[a].of
  <2>1. op[a].pc # "idle"
    BY <1>0, <1>7 DEF SetStatus, CommitAccess, CommitRemoval
  <2>2. /\ s \in Staff /\ account[s] # "none" /\ account[s] \in AccountStates
        /\ grants[s] \in SUBSET Roles /\ named[s] \in BOOLEAN
        /\ op[a].access \in SUBSET Roles
        /\ account = [account EXCEPT ![s] = account[s]] /\ named = [named EXCEPT ![s] = named[s]]
        /\ grants = [grants EXCEPT ![s] = grants[s]]
    BY <2>1 DEF OpIsFounded, Founded, StaffTypeOK, OpRows
  <2>3. account[s] \in {"active", "suspended"} /\ named[s] => grants[s] # {}
    BY <2>2 DEF AccessNeverLost, Live
  <2>4. CASE SetStatus(a)
    <3> DEFINE state == IF account[s] = "gone" THEN account[s]
                        ELSE [suspend |-> "suspended", activate |-> "active"][op[a].kind]
    <3>4. account' = [account EXCEPT ![s] = state] /\ UNCHANGED <<named, grants>> /\ op' = [op EXCEPT ![a] = NoOp]
      BY <2>4 DEF SetStatus
    <3>1. state \in {"active", "suspended", "gone"} /\ (state # "gone" => account[s] # "gone")
      BY <2>4 DEF SetStatus
    <3> HIDE DEF state
    <3>3. state \in AccountStates \ {"none"} /\ state # "deleted"
      BY <3>1
    <3>5. named' = [named EXCEPT ![s] = named[s]] /\ grants' = [grants EXCEPT ![s] = grants[s]]
      BY <2>2, <3>4
    <3>2. state \in {"active", "suspended"} /\ named[s] => grants[s] # {}
      BY <2>2, <2>3, <3>1 DEF TombstonesUnnamed
    <3>6. s \in Staff /\ grants[s] \in SUBSET Roles /\ named[s] \in BOOLEAN
      BY <2>2
    <3>7. account' = [account EXCEPT ![s] = state] /\ op' = [op EXCEPT ![a] = NoOp]
      BY <3>4
    <3> HIDE DEF s
    <3> QED  BY <2>1, <3>2, <3>3, <3>5, <3>6, <3>7, OpCommits DEF s
  <2>5. CASE CommitAccess(a)
    <3> DEFINE remain == (grants[s] \ op[a].cleared) \cup op[a].access
    <3>1. op[a].access # {}
      BY <2>5 DEF CommitAccess, OpIsFounded, Founded
    <3>2. remain \in SUBSET Roles /\ remain # {} /\ grants' = [grants EXCEPT ![s] = remain]
      BY <2>2, <2>5, <3>1 DEF CommitAccess
    <3>3. account[s] = "deleted" => ~named[s]
      BY <2>2 DEF TombstonesUnnamed
    <3>4. /\ account' = [account EXCEPT ![s] = account[s]] /\ named' = [named EXCEPT ![s] = named[s]]
          /\ op' = [op EXCEPT ![a] = NoOp]
      BY <2>2, <2>5 DEF CommitAccess
    <3> HIDE DEF remain, s
    <3> QED  BY <2>1, <2>2, <3>2, <3>3, <3>4, OpCommits DEF s
  <2>6. CASE CommitRemoval(a)
    <3> DEFINE state == IF account[s] = "gone" \/ op[a].hard THEN "gone" ELSE "deleted"
               remain == IF state = "gone" THEN {} ELSE grants[s] \ op[a].cleared
    <3>1. account' = [account EXCEPT ![s] = state] /\ named' = [named EXCEPT ![s] = FALSE]
      BY <2>6 DEF CommitRemoval
    <3>2. account'[s] = state /\ grants' = [grants EXCEPT ![s] = remain] /\ remain \in SUBSET Roles
      BY <2>2, <2>6, <3>1 DEF CommitRemoval, StaffTypeOK
    <3>3. state \in AccountStates \ {"none", "active", "suspended"}
      OBVIOUS
    <3>4. op' = [op EXCEPT ![a] = NoOp]
      BY <2>6 DEF CommitRemoval
    <3> HIDE DEF remain, state, s
    <3> QED  BY <2>1, <2>2, <3>1, <3>2, <3>3, <3>4, OpCommits DEF s
  <2> QED  BY <1>7, <2>4, <2>5, <2>6
<1>8. CASE UNCHANGED staffVars
  BY <1>8 DEF staffVars, StaffTypeOK, OpIsFounded, Founded, TombstonesUnnamed, AccessNeverLost, Live
<1> HIDE DEF StaffIInv
<1> QED  BY <1>1, <1>2, <1>3, <1>5, <1>6, <1>7, <1>8 DEF StaffNext

(* No account that was not deleted is ever without a role, however many    *)
(* administrators overlap.                                                 *)
THEOREM StaffKeepAccess == StaffSpec => []AccessNeverLost
<1>1. StaffIInv => AccessNeverLost
  BY DEF StaffIInv
<1> QED  BY <1>1, StaffInitOK, StaffStep, PTL DEF StaffSpec

-----------------------------------------------------------------------------
(* OnCall: an acknowledgement is on record.                                *)

Pageable == Responders \cup {"nobody", "none"}
PageStates == Unanswered \cup {"none", "acknowledged", "gone"}

OnCallTypeOK ==
  /\ schedule \in {"none", "open", "gone"} /\ rota \in 0..MaxRota
  /\ page \in [Pages -> [state : PageStates, by : Pageable]]
  /\ caller \in [Calls -> [pc : {"idle", "paging", "alerting", "linking", "acking", "acked", "escalating"},
                           on : Pages \cup {"none"}, by : Pageable]]
  /\ change \in [Managers -> [pc : {"idle", "adding", "removing", "deleting"}, left : 0..MaxRota]]
  /\ \A m \in Managers : change[m].pc = "adding" => change[m].left > 0

(* Between its two statements, whoever acknowledges has its row, unless    *)
(* the page is gone with the schedule; it never comes back.                *)
AckedHasRow ==
  \A c \in Calls : caller[c].pc = "acked" =>
    /\ caller[c].on \in Pages /\ page[caller[c].on].state # "none"
    /\ caller[c].on \in Paged => <<caller[c].on, caller[c].by>> \in acks

OnCallIInv == OnCallTypeOK /\ AckedHasRow /\ AckIsRecorded

LEMMA OnCallInitOK == OnCallInit => OnCallIInv
BY OnCallAssumption DEF OnCallInit, OnCallIInv, OnCallTypeOK, AckedHasRow, AckIsRecorded, NoCaller, NoChange,
       Pageable, PageStates, Unanswered, Paged

(* Steps of the managers that leave the pages alone.                       *)
LEMMA PagesUntouched ==
  ASSUME OnCallIInv, OnCallTypeOK', UNCHANGED <<pagerVars, caller>>
  PROVE  OnCallIInv'
BY DEF OnCallIInv, AckedHasRow, AckIsRecorded, pagerVars, Paged

(* What a caller does to itself matters only once it has acknowledged.     *)
LEMMA CallerMoves ==
  ASSUME OnCallIInv, NEW c \in Calls, NEW to \in [pc : {"idle", "paging", "alerting", "linking", "acking", "escalating"},
                                                  on : Pages \cup {"none"}, by : Pageable],
         Goes(c, to), UNCHANGED <<rotaVars, pagerVars, change>>
  PROVE  OnCallIInv'
BY DEF OnCallIInv, OnCallTypeOK, AckedHasRow, AckIsRecorded, rotaVars, pagerVars, Paged, Goes

LEMMA OnCallStep == OnCallIInv /\ [OnCallNext]_onCallVars => OnCallIInv'
<1> SUFFICES ASSUME OnCallIInv, [OnCallNext]_onCallVars PROVE OnCallIInv'
  OBVIOUS
<1> USE OnCallAssumption DEF OnCallIInv
<1>1. ASSUME NEW m \in Managers,
             \/ CreateSchedule(m) \/ UpdateRotation(m) \/ AddParticipant(m) \/ BeginRemoval(m)
             \/ RemoveParticipant(m) \/ BeginDeletion(m) \/ ChangeFails(m)
      PROVE  OnCallIInv'
  <2>1. UNCHANGED <<pagerVars, caller>>
    BY <1>1 DEF CreateSchedule, UpdateRotation, AddParticipant, BeginRemoval, RemoveParticipant,
                BeginDeletion, ChangeFails
  <2>2. OnCallTypeOK'
    BY <1>1 DEF CreateSchedule, UpdateRotation, AddParticipant, BeginRemoval, RemoveParticipant,
                BeginDeletion, ChangeFails, OnCallTypeOK, NoChange, rotaVars, pagerVars
  <2> QED  BY <2>1, <2>2, PagesUntouched
<1>2. ASSUME NEW m \in Managers, DeleteSchedule(m) PROVE OnCallIInv'
  <2>1. OnCallTypeOK'
    BY <1>2 DEF DeleteSchedule, OnCallTypeOK, NoChange, PageStates, Pageable
  <2>2. \A p \in Pages : page'[p].state \in {"none", "gone"} /\ (page'[p].state = "none" => page[p].state = "none")
    BY <1>2 DEF DeleteSchedule, Paged
  <2> QED  BY <1>2, <2>1, <2>2 DEF DeleteSchedule, AckedHasRow, AckIsRecorded, Paged
<1>3. ASSUME NEW c \in Calls, \/ BeginPage(c) \/ BeginEscalateAlert(c) \/ PagingFails(c)
                              \/ \E p \in Pages : BeginAck(c, p) \/ BeginEscalate(c, p)
      PROVE  OnCallIInv'
  <2>1. \E to \in [pc : {"idle", "paging", "alerting", "linking", "acking", "escalating"},
                   on : Pages \cup {"none"}, by : Pageable] : Goes(c, to)
    BY <1>3 DEF BeginPage, BeginEscalateAlert, PagingFails, BeginAck, BeginEscalate, NoCaller, Resolved,
                Pageable, Paged, AckIsRecorded
  <2> QED  BY <1>3, <2>1, CallerMoves DEF BeginPage, BeginEscalateAlert, PagingFails, BeginAck, BeginEscalate
<1>4. ASSUME NEW c \in Calls, InsertPage(c) PROVE OnCallIInv'
  <2> DEFINE Linking(p) == [NoCaller EXCEPT !.pc = "linking", !.on = p]
             To(p) == IF caller[c].pc = "paging" THEN NoCaller ELSE Linking(p)
  <2>1. PICK p \in Pages :
          /\ page[p].state = "none"
          /\ page' = [page EXCEPT ![p] = [state |-> "notified", by |-> caller[c].by]]
          /\ caller' = [caller EXCEPT ![c] = To(p)]
    BY <1>4 DEF InsertPage, Goes
  <2>7. /\ NoCaller \in [pc : {"idle", "linking"}, on : Pages \cup {"none"}, by : Pageable]
        /\ Linking(p) \in [pc : {"idle", "linking"}, on : Pages \cup {"none"}, by : Pageable]
    BY DEF NoCaller, Pageable
  <2>2. /\ To(p) \in [pc : {"idle", "linking"}, on : Pages \cup {"none"}, by : Pageable]
        /\ caller'[c].pc # "acked"
    BY <2>1, <2>7 DEF OnCallTypeOK
  <2> HIDE DEF To
  <2>6. OnCallTypeOK'
    BY <1>4, <2>1, <2>2 DEF InsertPage, OnCallTypeOK, rotaVars, PageStates, Unanswered, Pageable
  <2>3. Paged' = Paged \cup {p} /\ p \notin Paged
    BY <2>1 DEF Paged, OnCallTypeOK
  <2>4. AckedHasRow'
    BY <1>4, <2>1, <2>2, <2>3 DEF InsertPage, AckedHasRow, OnCallTypeOK
  <2>5. AckIsRecorded'
    BY <1>4, <2>1, <2>3 DEF InsertPage, AckIsRecorded, OnCallTypeOK
  <2> QED  BY <2>4, <2>5, <2>6
<1>5. ASSUME NEW c \in Calls, LinkAlert(c) PROVE OnCallIInv'
  BY <1>5 DEF LinkAlert, Goes, NoCaller, OnCallTypeOK, rotaVars, AckedHasRow, AckIsRecorded, Paged, Pageable
<1>6. ASSUME NEW c \in Calls, InsertAck(c) PROVE OnCallIInv'
  BY <1>6 DEF InsertAck, Goes, OnCallTypeOK, rotaVars, AckedHasRow, AckIsRecorded, Paged
<1>7. ASSUME NEW c \in Calls, NEW to \in {"acknowledged", "escalated"},
             to = "acknowledged" => UpdateAcked(c), to = "escalated" => UpdateEscalated(c)
      PROVE  OnCallIInv'
  <2>1. /\ page' = IF caller[c].on \in Paged
                     THEN [page EXCEPT ![caller[c].on] = [state |-> to, by |-> caller[c].by]] ELSE page
        /\ caller' = [caller EXCEPT ![c] = NoCaller]
        /\ UNCHANGED <<rotaVars, acks, alerted, change>>
    BY <1>7 DEF UpdateAcked, UpdateEscalated, Goes
  <2>2. OnCallTypeOK'
    BY <2>1 DEF NoCaller, OnCallTypeOK, rotaVars, PageStates, Unanswered, Pageable, Paged
  <2>3. \A p \in Pages : p \in Paged <=> page'[p].state \notin {"none", "gone"}
    BY <2>1 DEF Paged, OnCallTypeOK
  <2>4. Paged' = Paged /\ \A p \in Pages : page'[p].state = "none" <=> page[p].state = "none"
    BY <2>1, <2>3 DEF Paged, OnCallTypeOK
  <2>5. AckedHasRow'
    BY <2>1, <2>4 DEF NoCaller, AckedHasRow, OnCallTypeOK
  <2>6. AckIsRecorded'
    BY <1>7, <2>1, <2>4 DEF UpdateAcked, AckedHasRow, AckIsRecorded, OnCallTypeOK
  <2> QED  BY <2>2, <2>5, <2>6
<1>8. CASE UNCHANGED onCallVars
  BY <1>8, PagesUntouched DEF onCallVars, rotaVars, pagerVars, OnCallTypeOK
<1>9. ASSUME NEW c \in Calls, UpdateAcked(c) \/ UpdateEscalated(c) PROVE OnCallIInv'
  BY <1>7, <1>9
<1> HIDE DEF OnCallIInv
<1> QED  BY <1>1, <1>2, <1>3, <1>4, <1>5, <1>6, <1>8, <1>9 DEF OnCallNext

(* Whoever a page says has acknowledged it is on record as having done so, *)
(* for any callers and managers.                                           *)
THEOREM AcksAreOnRecord == OnCallSpec => []AckIsRecorded
<1>1. OnCallIInv => AckIsRecorded
  BY DEF OnCallIInv
<1> QED  BY <1>1, OnCallInitOK, OnCallStep, PTL DEF OnCallSpec

-----------------------------------------------------------------------------
(* OpsAlerts: alerts are whole.                                            *)

AlertKeys == DedupKeys \cup {NoKey}
AlertRows == [state : AlertStates \cup {"none"}, key : AlertKeys, acked : BOOLEAN, stamped : BOOLEAN]

AlertTypeOK ==
  /\ alert \in [Alerts -> AlertRows]
  /\ asked \in [AlertCalls -> [pc : {"idle", "creating", "moving"}, on : Alerts \cup {"none"},
                               to : AlertStates \cup {"none"}, key : AlertKeys, read : AlertRows]]

(* The stamps of a row are those of its state.                             *)
WellStamped(row) ==
  /\ row.stamped <=> row.state = "resolved"
  /\ row.acked => row.state # "triggered"
  /\ row.state = "acknowledged" => row.acked

(* A transition at work writes what a whole row, once read, may become.    *)
MovesFromWhole ==
  \A c \in AlertCalls : asked[c].pc = "moving" =>
    asked[c].on \in Alerts /\ CanMove(asked[c].read.state, asked[c].to) /\ WellStamped(asked[c].read)

AlertIInv == AlertTypeOK /\ MovesFromWhole /\ AlertsAreWhole

LEMMA AlertInitOK == AlertsInit => AlertIInv
BY DEF AlertsInit, AlertIInv, AlertTypeOK, AlertRows, AlertKeys, MovesFromWhole, AlertsAreWhole, NoAlert, NotAsked,
       AlertStates

(* Whatever was read, a row that moves is well stamped again.              *)
LEMMA MovedIsWhole ==
  ASSUME NEW row \in AlertRows, NEW read \in AlertRows, NEW to \in AlertStates,
         CanMove(read.state, to), WellStamped(read)
  PROVE  /\ MovedRow(row, read, to) \in AlertRows /\ WellStamped(MovedRow(row, read, to))
         /\ MovedRow(row, read, to).state = to /\ MovedRow(row, read, to).key = row.key
         /\ to \in {"acknowledged", "resolved"}
<1>1. to \in {"acknowledged", "resolved"}
  BY DEF CanMove
<1> DEFINE moved == MovedRow(row, read, to)
<1>2. moved.state = to /\ moved.key = row.key /\ moved \in AlertRows
  BY DEF MovedRow, AlertRows
<1>3. /\ moved.acked <=> read.acked \/ to = "acknowledged"
      /\ moved.stamped <=> read.stamped \/ to = "resolved"
  BY DEF MovedRow, AlertRows
<1> HIDE DEF moved
<1>4. WellStamped(moved)
  BY <1>1, <1>2, <1>3 DEF WellStamped, CanMove
<1> QED  BY <1>1, <1>2, <1>4 DEF moved

(* Steps that leave the rows alone.                                        *)
LEMMA AlertsUntouched ==
  ASSUME AlertIInv, UNCHANGED alert, AlertTypeOK', MovesFromWhole'
  PROVE  AlertIInv'
BY DEF AlertIInv, AlertsAreWhole

(* One row changes: it is whole, and alone with its key if it is open.     *)
LEMMA OneRowChanges ==
  ASSUME AlertIInv, NEW a \in Alerts, NEW row \in AlertRows, row.state # "none",
         alert' = [alert EXCEPT ![a] = row], WellStamped(row),
         row.state # "resolved" => IndexAllows(row.key, Alerts \ {a})
  PROVE  AlertsAreWhole'
<1> USE DEF AlertIInv, AlertTypeOK
<1>1. alert'[a] = row /\ \A b \in Alerts \ {a} : alert'[b] = alert[b]
  OBVIOUS
<1>2. ASSUME NEW b \in Alerts, b # a, row.state \in {"triggered", "acknowledged"}, row.key # NoKey,
             alert[b].state \in {"triggered", "acknowledged"}
      PROVE  alert[b].key # row.key
  BY <1>2 DEF IndexAllows, Unresolved
<1>3. \A b, d \in Alerts :
        {alert'[b].state, alert'[d].state} \subseteq {"triggered", "acknowledged"}
          /\ alert'[b].key = alert'[d].key /\ alert'[b].key # NoKey => b = d
  BY <1>1, <1>2 DEF AlertsAreWhole
<1>4. \A b \in Alerts : WellStamped(alert'[b])
  BY <1>1 DEF AlertsAreWhole, WellStamped
<1> QED  BY <1>3, <1>4 DEF AlertsAreWhole, WellStamped

LEMMA AlertStep == AlertIInv /\ [AlertsNext]_alertVars => AlertIInv'
<1> SUFFICES ASSUME AlertIInv, [AlertsNext]_alertVars PROVE AlertIInv'
  OBVIOUS
<1> USE DEF AlertIInv
<1>0. NotAsked \in [pc : {"idle"}, on : {"none"}, to : {"none"}, key : AlertKeys, read : AlertRows]
  BY DEF NotAsked, NoAlert, AlertRows, AlertKeys
<1>1. ASSUME NEW c \in AlertCalls, BeginAlert(c) PROVE AlertIInv'
  <2>1. PICK key \in AlertKeys : asked' = [asked EXCEPT ![c] = [NotAsked EXCEPT !.pc = "creating", !.key = key]]
    BY <1>1 DEF BeginAlert, AlertKeys
  <2>2. AlertTypeOK' /\ MovesFromWhole'
    BY <1>0, <1>1, <2>1 DEF BeginAlert, AlertTypeOK, MovesFromWhole
  <2> QED  BY <1>1, <2>2, AlertsUntouched DEF BeginAlert
<1>2. ASSUME NEW c \in AlertCalls, InsertAlert(c) PROVE AlertIInv'
  <2> DEFINE row == [NoAlert EXCEPT !.state = "triggered", !.key = asked[c].key]
  <2>1. PICK a \in Alerts : alert' = [alert EXCEPT ![a] = row]
    BY <1>2 DEF InsertAlert
  <2>2. row \in AlertRows /\ row.state = "triggered" /\ row.key = asked[c].key /\ WellStamped(row)
    BY DEF NoAlert, AlertTypeOK, AlertRows, AlertStates, AlertKeys, WellStamped
  <2> HIDE DEF row
  <2>3. AlertTypeOK' /\ MovesFromWhole'
    BY <1>0, <1>2, <2>1, <2>2 DEF InsertAlert, AlertTypeOK, MovesFromWhole
  <2>4. IndexAllows(row.key, Alerts \ {a})
    BY <1>2, <2>2 DEF InsertAlert, IndexAllows
  <2> QED  BY <2>1, <2>2, <2>3, <2>4, OneRowChanges
<1>3. ASSUME NEW c \in AlertCalls, NEW a \in Alerts, BeginMove(c, a) PROVE AlertIInv'
  <2>1. PICK to \in AlertStates :
          /\ CanMove(alert[a].state, to)
          /\ asked' = [asked EXCEPT ![c] = [NotAsked EXCEPT !.pc = "moving", !.on = a, !.to = to, !.read = alert[a]]]
    BY <1>3 DEF BeginMove
  <2>2. WellStamped(alert[a])
    BY DEF AlertsAreWhole, WellStamped
  <2>3. AlertTypeOK' /\ MovesFromWhole'
    BY <1>0, <1>3, <2>1, <2>2 DEF BeginMove, AlertTypeOK, MovesFromWhole
  <2> QED  BY <1>3, <2>3, AlertsUntouched DEF BeginMove
<1>4. ASSUME NEW c \in AlertCalls, MoveAlert(c) PROVE AlertIInv'
  <2> DEFINE a == asked[c].on
             row == MovedRow(alert[a], asked[c].read, asked[c].to)
  <2>1. a \in Alerts /\ alert[a] \in AlertRows /\ alert' = [alert EXCEPT ![a] = row]
    BY <1>4 DEF MoveAlert, MovesFromWhole, AlertTypeOK
  <2>2. asked[c].to \in AlertStates /\ asked[c].read \in AlertRows
    BY <1>4 DEF MoveAlert, MovesFromWhole, AlertTypeOK, CanMove, AlertStates
  <2>3. /\ row \in AlertRows /\ WellStamped(row)
        /\ row.state = asked[c].to /\ row.key = alert[a].key
        /\ asked[c].to \in {"acknowledged", "resolved"}
    BY <1>4, <2>1, <2>2, MovedIsWhole DEF MoveAlert, MovesFromWhole
  <2>4. row.state # "resolved" => IndexAllows(row.key, Alerts \ {a})
    BY <1>4, <2>3 DEF MoveAlert
  <2> HIDE DEF row
  <2>5. AlertTypeOK' /\ MovesFromWhole'
    BY <1>0, <1>4, <2>1, <2>3 DEF MoveAlert, AlertTypeOK, MovesFromWhole
  <2> QED  BY <2>1, <2>3, <2>4, <2>5, OneRowChanges
<1>5. ASSUME NEW c \in AlertCalls, AlertFails(c) PROVE AlertIInv'
  <2>1. AlertTypeOK' /\ MovesFromWhole'
    BY <1>0, <1>5 DEF AlertFails, AlertTypeOK, MovesFromWhole
  <2> QED  BY <1>5, <2>1, AlertsUntouched DEF AlertFails
<1>6. CASE UNCHANGED alertVars
  BY <1>6, AlertsUntouched DEF alertVars, AlertTypeOK, MovesFromWhole
<1> QED  BY <1>1, <1>2, <1>3, <1>4, <1>5, <1>6 DEF AlertsNext

(* A source that repeats its key has one unresolved alert, and the stamps  *)
(* of an alert are those of its state, for any calls and keys.             *)
THEOREM AlertsStayWhole == AlertsSpec => []AlertsAreWhole
<1>1. AlertIInv => AlertsAreWhole
  BY DEF AlertIInv
<1> QED  BY <1>1, AlertInitOK, AlertStep, PTL DEF AlertsSpec

-----------------------------------------------------------------------------
(* Automation: what is called executed is done.                            *)

RuleStates == {"draft", "published", "disabled"}
JudgeSteps == {"idle", "performing", "rejecting", "approved", "rejected"}

AutomationTypeOK ==
  /\ rule \in RuleStates
  /\ handler \in [Firings -> {"new", "acting", "approving", "linking", "over"}]
  /\ execution \in [Firings -> [outcome : {"none", "executed", "pending_approval", "rejected"}, linked : BOOLEAN]]
  /\ gate \in [Firings -> {"none", "requested", "approved", "rejected"}]
  /\ did \in [Firings -> SUBSET (Safe \cup Gated)]
  /\ judge \in [Judges -> [pc : JudgeSteps, of : Firings \cup {"none"}, linked : BOOLEAN, todo : SUBSET Gated]]

(* An execution is recorded when the safe actions are through; a gated one *)
(* is performed for a recorded execution only.                             *)
SafeThenRecorded ==
  \A e \in Firings : /\ execution[e].outcome # "none" => Safe \subseteq did[e]
                     /\ did[e] \cap Gated # {} => execution[e].outcome # "none"

(* Whoever approves has performed what is not left to do, all of it once   *)
(* the execution is marked.                                                *)
JudgeIsTrue ==
  \A c \in Judges : judge[c].pc # "idle" =>
    LET e == judge[c].of IN
    /\ e \in Firings /\ execution[e].outcome # "none"
    /\ judge[c].pc = "performing" => Gated \ judge[c].todo \subseteq did[e]
    /\ judge[c].pc = "approved" => Gated \subseteq did[e]

AutomationIInv == AutomationTypeOK /\ SafeThenRecorded /\ JudgeIsTrue /\ ExecutedIsDone

LEMMA AutomationInitOK == AutomationInit => AutomationIInv
BY DEF AutomationInit, AutomationIInv, AutomationTypeOK, SafeThenRecorded, JudgeIsTrue, ExecutedIsDone, NoJudge,
       RuleStates, JudgeSteps

(* What an event has been through is only added to, and no request claims  *)
(* more than before.                                                       *)
LEMMA OnlyMore ==
  ASSUME AutomationIInv, AutomationTypeOK', SafeThenRecorded',
         UNCHANGED judge,
         \A e \in Firings : /\ did[e] \subseteq did'[e]
                            /\ execution[e].outcome # "none" => execution'[e].outcome # "none"
                            /\ execution'[e].outcome = "executed" =>
                                 execution[e].outcome = "executed" \/ Safe \cup Gated \subseteq did'[e]
                            /\ gate'[e] = "approved" => gate[e] = "approved"
  PROVE  AutomationIInv'
<1> USE DEF AutomationIInv
<1>1. JudgeIsTrue'
  BY DEF JudgeIsTrue
<1>2. ExecutedIsDone'
  BY DEF ExecutedIsDone, SafeThenRecorded
<1> QED  BY <1>1, <1>2

(* A request that takes a step, with what it does to the executions.       *)
LEMMA JudgeMoves ==
  ASSUME AutomationIInv, AutomationTypeOK', NEW c \in Judges, NEW to, Judging(c, to), to.pc \in JudgeSteps,
         UNCHANGED <<rule, handler, did>>,
         \A e \in Firings : /\ execution[e].outcome = "none" <=> execution'[e].outcome = "none"
                            /\ execution'[e].outcome = "executed" \/ gate'[e] = "approved" =>
                                 \/ execution[e].outcome = "executed" \/ gate[e] = "approved"
                                 \/ Safe \cup Gated \subseteq did[e],
         to.pc # "idle" => /\ to.of \in Firings /\ execution[to.of].outcome # "none"
                           /\ to.pc = "performing" => Gated \ to.todo \subseteq did[to.of]
                           /\ to.pc = "approved" => Gated \subseteq did[to.of]
  PROVE  AutomationIInv'
<1> USE DEF AutomationIInv
<1>1. judge' = [judge EXCEPT ![c] = to] /\ judge'[c] = to /\ \A d \in Judges \ {c} : judge'[d] = judge[d]
  BY DEF Judging, AutomationTypeOK
<1>2. JudgeIsTrue'
  BY <1>1 DEF JudgeIsTrue, AutomationTypeOK
<1>3. SafeThenRecorded' /\ ExecutedIsDone'
  BY DEF SafeThenRecorded, ExecutedIsDone
<1> QED  BY <1>2, <1>3

LEMMA AutomationStep == AutomationIInv /\ [AutomationNext]_automationVars => AutomationIInv'
<1> SUFFICES ASSUME AutomationIInv, [AutomationNext]_automationVars PROVE AutomationIInv'
  OBVIOUS
<1> USE DEF AutomationIInv
<1>0. NoJudge \in [pc : {"idle"}, of : {"none"}, linked : BOOLEAN, todo : SUBSET Gated]
  BY DEF NoJudge
<1>1. ASSUME \/ UNCHANGED automationVars \/ \E state \in RuleStates : SetRule(state)
             \/ \E e \in Firings : HandleEvent(e) \/ HandlerFails(e)
      PROVE  AutomationIInv'
  <2>1. AutomationTypeOK' /\ UNCHANGED <<execution, gate, did, judge>>
    BY <1>1 DEF automationVars, ruleVars, SetRule, HandleEvent, HandlerFails, AutomationTypeOK
  <2>2. SafeThenRecorded'
    BY <2>1 DEF SafeThenRecorded
  <2> QED  BY <2>1, <2>2, OnlyMore
<1>2. ASSUME NEW e \in Firings, PerformSafe(e) PROVE AutomationIInv'
  <2>1. PICK action \in Safe : did' = [did EXCEPT ![e] = @ \cup {action}]
    BY <1>2 DEF PerformSafe
  <2>2. did'[e] = did[e] \cup {action} /\ \A f \in Firings \ {e} : did'[f] = did[f]
    BY <2>1 DEF AutomationTypeOK
  <2>3. AutomationTypeOK'
    BY <1>2, <2>1 DEF PerformSafe, AutomationTypeOK
  <2>4. \A f \in Firings : did'[f] \cap Gated = did[f] \cap Gated /\ did[f] \subseteq did'[f]
    BY <2>2, AutomationAssumption
  <2>5. SafeThenRecorded'
    BY <1>2, <2>4 DEF PerformSafe, SafeThenRecorded
  <2> QED  BY <1>2, <2>3, <2>4, <2>5, OnlyMore DEF PerformSafe
<1>3. ASSUME NEW e \in Firings, RecordExecution(e) PROVE AutomationIInv'
  <2> DEFINE outcome == IF Gated = {} THEN "executed" ELSE "pending_approval"
  <2>1. /\ execution' = [execution EXCEPT ![e].outcome = outcome] /\ Safe \subseteq did[e]
        /\ UNCHANGED <<gate, did, judge>>
    BY <1>3 DEF RecordExecution
  <2>2. AutomationTypeOK'
    BY <1>3 DEF RecordExecution, AutomationTypeOK
  <2>3. execution'[e].outcome = outcome /\ \A f \in Firings \ {e} : execution'[f] = execution[f]
    BY <2>1 DEF AutomationTypeOK
  <2>4. SafeThenRecorded'
    BY <2>1, <2>3 DEF SafeThenRecorded
  <2> QED  BY <2>1, <2>2, <2>3, <2>4, OnlyMore
<1>4. ASSUME NEW e \in Firings, RecordApproval(e) \/ LinkApproval(e) PROVE AutomationIInv'
  <2>1. /\ AutomationTypeOK' /\ UNCHANGED <<did, judge>>
        /\ \A f \in Firings : /\ execution'[f].outcome = execution[f].outcome
                              /\ gate'[f] = "approved" => gate[f] = "approved"
    <3>1. CASE RecordApproval(e)
      BY <3>1 DEF RecordApproval, AutomationTypeOK
    <3>2. CASE LinkApproval(e)
      BY <3>2 DEF LinkApproval, AutomationTypeOK
    <3> QED  BY <1>4, <3>1, <3>2
  <2>2. SafeThenRecorded'
    BY <2>1 DEF SafeThenRecorded
  <2> QED  BY <2>1, <2>2, OnlyMore
<1>5. ASSUME NEW c \in Judges, NEW e \in Firings, BeginJudging(c, e) PROVE AutomationIInv'
  <2>1. PICK pc \in {"performing", "rejecting"} :
          Judging(c, [pc |-> pc, of |-> e, linked |-> execution[e].linked, todo |-> Gated])
    BY <1>5 DEF BeginJudging
  <2>2. AutomationTypeOK'
    BY <1>5, <2>1 DEF BeginJudging, Judging, AutomationTypeOK, JudgeSteps, ruleVars
  <2> QED  BY <1>5, <2>1, <2>2, JudgeMoves DEF BeginJudging, JudgeSteps, ruleVars
<1>6. ASSUME NEW c \in Judges, PerformGated(c) PROVE AutomationIInv'
  <2> DEFINE e == judge[c].of
  <2>1. PICK action \in judge[c].todo :
          /\ did' = [did EXCEPT ![e] = @ \cup {action}]
          /\ judge' = [judge EXCEPT ![c].todo = @ \ {action}]
    BY <1>6 DEF PerformGated, Judging, AutomationTypeOK
  <2>2. e \in Firings /\ execution[e].outcome # "none" /\ judge[c].todo \subseteq Gated
    BY <1>6 DEF PerformGated, JudgeIsTrue, AutomationTypeOK
  <2>3. did'[e] = did[e] \cup {action} /\ \A f \in Firings \ {e} : did'[f] = did[f]
    BY <2>1, <2>2 DEF AutomationTypeOK
  <2>4. /\ judge'[c].pc = "performing" /\ judge'[c].of = e /\ judge'[c].todo = judge[c].todo \ {action}
        /\ \A d \in Judges \ {c} : judge'[d] = judge[d]
    BY <1>6, <2>1 DEF PerformGated, AutomationTypeOK
  <2>5. AutomationTypeOK'
    BY <1>6, <2>1, <2>2 DEF PerformGated, AutomationTypeOK
  <2>6. SafeThenRecorded' /\ ExecutedIsDone'
    BY <1>6, <2>2, <2>3 DEF PerformGated, SafeThenRecorded, ExecutedIsDone
  <2>7. JudgeIsTrue'
    <3> SUFFICES ASSUME NEW d \in Judges, judge'[d].pc # "idle"
                 PROVE  LET f == judge'[d].of IN
                        /\ f \in Firings /\ execution'[f].outcome # "none"
                        /\ judge'[d].pc = "performing" => Gated \ judge'[d].todo \subseteq did'[f]
                        /\ judge'[d].pc = "approved" => Gated \subseteq did'[f]
      BY DEF JudgeIsTrue
    <3>1. CASE d = c
      BY <1>6, <2>2, <2>3, <2>4, <3>1 DEF PerformGated, JudgeIsTrue
    <3>2. CASE d # c
      BY <1>6, <2>2, <2>3, <2>4, <3>2 DEF PerformGated, JudgeIsTrue
    <3> QED  BY <3>1, <3>2
  <2> QED  BY <2>5, <2>6, <2>7
<1>7. ASSUME NEW c \in Judges, MarkExecuted(c) \/ MarkRejected(c) PROVE AutomationIInv'
  <2> DEFINE e == judge[c].of
  <2>1. PICK mark \in {"executed", "rejected"}, pc \in {"approved", "rejected"} :
          /\ execution' = [execution EXCEPT ![e].outcome = mark]
          /\ Judging(c, [judge[c] EXCEPT !.pc = pc])
          /\ mark = "executed" \/ pc = "approved" => judge[c].pc = "performing" /\ judge[c].todo = {}
          /\ judge[c].pc # "idle" /\ UNCHANGED <<rule, handler, gate, did>>
    BY <1>7 DEF MarkExecuted, MarkRejected
  <2>2. e \in Firings /\ execution[e].outcome # "none"
        /\ (judge[c].pc = "performing" /\ judge[c].todo = {} => Safe \cup Gated \subseteq did[e])
    BY <2>1 DEF JudgeIsTrue, SafeThenRecorded
  <2>3. execution'[e].outcome = mark /\ \A f \in Firings \ {e} : execution'[f] = execution[f]
    BY <2>1, <2>2 DEF AutomationTypeOK
  <2> DEFINE to == [judge[c] EXCEPT !.pc = pc]
  <2>4. to.pc = pc /\ to.of = e /\ to \in [pc : JudgeSteps, of : Firings \cup {"none"}, linked : BOOLEAN, todo : SUBSET Gated]
    BY DEF AutomationTypeOK, JudgeSteps
  <2>5. AutomationTypeOK'
    BY <2>1, <2>2, <2>4 DEF AutomationTypeOK, Judging
  <2> HIDE DEF to
  <2>6. \A f \in Firings : /\ execution[f].outcome = "none" <=> execution'[f].outcome = "none"
                           /\ execution'[f].outcome = "executed" \/ gate'[f] = "approved" =>
                                \/ execution[f].outcome = "executed" \/ gate[f] = "approved"
                                \/ Safe \cup Gated \subseteq did[f]
    BY <2>1, <2>2, <2>3
  <2>7. /\ to.of \in Firings /\ execution[to.of].outcome # "none" /\ to.pc \in JudgeSteps
        /\ to.pc # "performing" /\ (to.pc = "approved" => Gated \subseteq did[to.of])
    BY <2>1, <2>2, <2>4 DEF JudgeSteps
  <2>8. Judging(c, to) /\ UNCHANGED <<rule, handler, did>>
    BY <2>1 DEF to
  <2> QED  BY <2>5, <2>6, <2>7, <2>8, JudgeMoves
<1>8. ASSUME NEW c \in Judges, MarkApproval(c) PROVE AutomationIInv'
  <2>1. judge[c].of \in Firings /\ (judge[c].pc = "approved" => Safe \cup Gated \subseteq did[judge[c].of])
    BY <1>8 DEF MarkApproval, JudgeIsTrue, SafeThenRecorded
  <2>2. /\ UNCHANGED <<rule, handler, execution, did>> /\ Judging(c, NoJudge) /\ NoJudge.pc = "idle"
        /\ \A f \in Firings : gate'[f] = "approved" => gate[f] = "approved" \/ Safe \cup Gated \subseteq did[f]
    BY <1>8, <2>1 DEF MarkApproval, NoJudge, AutomationTypeOK
  <2>3. AutomationTypeOK'
    BY <1>0, <1>8, <2>1 DEF MarkApproval, Judging, AutomationTypeOK, JudgeSteps
  <2> QED  BY <2>2, <2>3, JudgeMoves DEF JudgeSteps
<1>9. ASSUME NEW c \in Judges, JudgeFails(c) PROVE AutomationIInv'
  <2>1. AutomationTypeOK'
    BY <1>0, <1>9 DEF JudgeFails, Judging, AutomationTypeOK, JudgeSteps, ruleVars
  <2> QED  BY <1>0, <1>9, <2>1, JudgeMoves DEF JudgeFails, JudgeSteps, ruleVars
<1> HIDE DEF AutomationIInv
<1> QED  BY <1>1, <1>2, <1>3, <1>4, <1>5, <1>6, <1>7, <1>8, <1>9 DEF AutomationNext, RuleStates

(* An execution called executed, or whose approval is approved, has had    *)
(* all its actions performed, for any actions, events and requests.        *)
THEOREM ExecutionsAreDone == AutomationSpec => []ExecutedIsDone
<1>1. AutomationIInv => ExecutedIsDone
  BY DEF AutomationIInv
<1> QED  BY <1>1, AutomationInitOK, AutomationStep, PTL DEF AutomationSpec

-----------------------------------------------------------------------------
(* Notifications: a move is told once.                                     *)

People == Crew \cup Board \cup {Requester, Desk, Chair, Raiser}
Persons == CaseStatuses \cup People \cup {"none", "nobody", "internal", "customer", "sender"}
EventTypes == MoveTypes \cup {"ticket.created", "ticket.acknowledged", "ticket.escalated", "ticket.commented",
                              "change.cab_requested", "change.vote_cast", "change.vote_overdue", "change.approved"}
Stages == {"published", "teams", "email", "done", "died"}
Dispatches == [type : EventTypes, from : Persons, to : Persons, pc : Stages, todo : SUBSET People]
TicketStates == [filed : BOOLEAN, status : CaseStatuses, assignee : Crew \cup {"nobody"}, balloted : BOOLEAN]

NoticesTypeOK ==
  /\ case \in TicketStates /\ draft \in TicketStates /\ began \in BOOLEAN /\ notices \in SUBSET Dispatches
  /\ muted \in SUBSET {Requester, Chair} /\ teams \in BOOLEAN /\ mail \in BOOLEAN

(* A status change to or from a finished state, which a milestone stands   *)
(* for, and what is for the desk.                                          *)
Quiet(n) == n.type = "ticket.status_changed" /\ {n.from, n.to} \cap SettledStatuses # {}
Internal(n) == n.type \in {"ticket.created", "ticket.escalated"} \/ n.to = "internal"

(* The events of one operation: of each type one, and of a move one is not *)
(* quiet.                                                                  *)
EventsOK(events) ==
  /\ \A n, m \in events : n.type = m.type => n = m
  /\ \A n \in events : /\ n.to = "internal" => n.type = "ticket.commented"
                       /\ n.type = "ticket.assigned" => n.to \in Crew \cup {"nobody"}
  /\ events # {} /\ (\A n \in events : n.type \in MoveTypes) =>
       \E n \in events : ~Quiet(n) /\ \A m \in events : m # n => Quiet(m)

(* An operation that has not begun has left nothing.                       *)
BeginsBlank == (~began => notices = {} /\ rows = {} /\ draft = case) /\ (case.filed => draft.filed)

Told(n) == \E r \in Tried(n) : r[3] = Requester \/ <<r[2], r[4]>> = <<"teams", "sent">> \/ ~mail

(* A move that is not quiet has the requester to tell until one is told.   *)
RequesterIsNext(n) ==
  /\ n.pc = "teams" => Requester \in n.todo
  /\ n.pc = "email" => /\ Requester \in n.todo \/ Told(n)
                       /\ teams => Tried(n) # {}
  /\ n.pc = "done" /\ (teams \/ mail) => Told(n)

RecordOK(n) ==
  n.pc = "done" =>
    \/ <<n.type, "teams", "none", "sent">> \in rows
    \/ \E s \in {"skipped", "substituted"} : <<n.type, "email", "none", s>> \in rows
    \/ n.todo = {} /\ Tried(n) # {}

DispatchOK(n) ==
  /\ n.type \in MoveTypes => case.filed
  /\ Internal(n) => Requester \notin n.todo /\ \A r \in rows : r[1] = n.type => r[3] # Requester
  /\ EmailOnly(n) => n.pc # "teams" /\ \A r \in rows : r[1] = n.type => r[2] # "teams"
  /\ Quiet(n) => n.todo = {} /\ Tried(n) = {}
  /\ n.type \in MoveTypes /\ ~Quiet(n) /\ Requester \notin muted => RequesterIsNext(n)
  /\ RecordOK(n)

DispatchesOK == \A n \in notices : DispatchOK(n)

NoticesIInv == NoticesTypeOK /\ EventsOK(notices) /\ BeginsBlank /\ DispatchesOK

(* The invariant says what the requester and the desk hear.                *)
LEMMA HeardOfOne == NoticesIInv => ToldOnce
<1> SUFFICES ASSUME NoticesIInv PROVE ToldOnce
  OBVIOUS
<1> USE DEF NoticesIInv
<1>1. InternalStaysInside
  BY DEF DispatchesOK, DispatchOK, Internal, InternalStaysInside
<1>2. EndedIsOnRecord
  BY DEF DispatchesOK, DispatchOK, RecordOK, EndedIsOnRecord
<1>3. ASSUME notices # {}, Requester \notin muted, teams \/ mail, \A n \in notices : n.type \in MoveTypes /\ n.pc = "done"
      PROVE  LET heard == {n \in notices : Tried(n) # {}}
             IN  /\ Cardinality(heard) = 1
                 /\ \A n \in heard : \E r \in Tried(n) : r[3] = Requester \/ <<r[2], r[4]>> = <<"teams", "sent">> \/ ~mail
  <2> DEFINE heard == {n \in notices : Tried(n) # {}}
  <2>1. PICK n \in notices : ~Quiet(n) /\ \A m \in notices : m # n => Quiet(m)
    BY <1>3 DEF EventsOK
  <2>2. Told(n)
    BY <1>3, <2>1 DEF DispatchesOK, DispatchOK, RequesterIsNext
  <2>3. \A m \in notices : m # n => Tried(m) = {}
    BY <2>1 DEF DispatchesOK, DispatchOK
  <2>4. heard = {n}
    BY <2>2, <2>3 DEF Told
  <2>5. Cardinality(heard) = 1
    BY <2>4, FS_Singleton
  <2> QED  BY <2>2, <2>4, <2>5 DEF Told
<1>4. MoveToldOnce
  BY <1>3 DEF MoveToldOnce
<1> QED  BY <1>1, <1>2, <1>4 DEF ToldOnce

LEMMA NoticesInitOK == NoticesInit => NoticesIInv
BY DEF NoticesInit, NoticesIInv, NoticesTypeOK, TicketStates, EventsOK, BeginsBlank, DispatchesOK

(* An operation begins with its events.                                    *)
LEMMA OperationBegins ==
  ASSUME NoticesIInv, NEW events \in SUBSET Dispatches, EventsOK(events), \A n \in events : n.pc = "published" /\ n.todo = {},
         (\E n \in events : n.type \in MoveTypes) => case'.filed,
         ~began, began' = TRUE, notices' = events, case' \in TicketStates, draft' \in TicketStates,
         case'.filed => draft'.filed, UNCHANGED <<rows, fixedVars>>
  PROVE  NoticesIInv'
<1>1. NoticesTypeOK' /\ BeginsBlank' /\ rows' = {}
  BY DEF NoticesIInv, NoticesTypeOK, BeginsBlank, fixedVars
<1>2. EventsOK(notices)'
  BY DEF EventsOK, Quiet
<1>3. ASSUME NEW n \in events PROVE DispatchOK(n)'
  BY <1>1 DEF DispatchOK, RequesterIsNext, RecordOK, Tried, Internal, EmailOnly, Quiet
<1> QED  BY <1>1, <1>2, <1>3 DEF NoticesIInv, DispatchesOK

(* One dispatch moves and records what it did.                             *)
LEMMA DispatchMoves ==
  ASSUME NoticesIInv, NEW n \in notices, NEW new \in Dispatches, notices' = (notices \ {n}) \cup {new},
         new.type = n.type, new.from = n.from, new.to = n.to, UNCHANGED <<moveVars, fixedVars>>,
         rows \subseteq rows', \A r \in rows' \ rows : r[1] = n.type, DispatchOK(new)'
  PROVE  NoticesIInv'
<1>1. NoticesTypeOK' /\ BeginsBlank'
  BY DEF NoticesIInv, NoticesTypeOK, BeginsBlank, moveVars, fixedVars
<1>2. \A m \in notices : m.type = n.type => m = n
  BY DEF NoticesIInv, EventsOK
<1>3. EventsOK(notices)'
  <2>1. \A m, k \in notices' : m.type = k.type => m = k
    BY <1>2 DEF NoticesIInv, EventsOK
  <2>2. \A m \in notices' : /\ m.to = "internal" => m.type = "ticket.commented"
                            /\ m.type = "ticket.assigned" => m.to \in Crew \cup {"nobody"}
    BY DEF NoticesIInv, EventsOK
  <2>3. (\A m \in notices' : m.type \in MoveTypes) => \E m \in notices' : ~Quiet(m) /\ \A k \in notices' : k # m => Quiet(k)
    <3> SUFFICES ASSUME \A m \in notices' : m.type \in MoveTypes
                 PROVE  \E m \in notices' : ~Quiet(m) /\ \A k \in notices' : k # m => Quiet(k)
      OBVIOUS
    <3>1. PICK m \in notices : ~Quiet(m) /\ \A k \in notices : k # m => Quiet(k)
      BY DEF NoticesIInv, EventsOK
    <3>2. CASE m = n
      BY <3>1, <3>2 DEF Quiet
    <3>3. CASE m # n
      BY <3>1, <3>3 DEF Quiet
    <3> QED  BY <3>2, <3>3
  <2> QED  BY <2>1, <2>2, <2>3 DEF EventsOK, Quiet
<1>4. ASSUME NEW m \in notices, m # n PROVE DispatchOK(m)'
  <2>1. m.type # n.type /\ DispatchOK(m)
    BY <1>2, <1>4 DEF NoticesIInv, DispatchesOK
  <2>2. \A r \in rows' : r[1] = m.type => r \in rows
    BY <2>1
  <2>3. Tried(m)' = Tried(m)
    BY <2>2 DEF Tried
  <2> QED  BY <2>1, <2>2, <2>3 DEF DispatchOK, RequesterIsNext, RecordOK, Told, Internal, EmailOnly, Quiet, moveVars, fixedVars
<1>5. DispatchesOK'
  BY <1>4 DEF DispatchesOK
<1> QED  BY <1>1, <1>3, <1>5 DEF NoticesIInv

(* resolveRecipients: a move that is not quiet finds the requester, unless *)
(* mail is disabled; a quiet one finds nobody; and what is for the desk    *)
(* never finds the requester.                                              *)
LEMMA RecipientsOK ==
  ASSUME NoticesIInv, NEW n \in notices
  PROVE  /\ ResolveRecipients(n) \subseteq People
         /\ Internal(n) => Requester \notin ResolveRecipients(n)
         /\ Quiet(n) => ResolveRecipients(n) = {}
         /\ n.type \in MoveTypes /\ ~Quiet(n) /\ Requester \notin muted => Requester \in ResolveRecipients(n)
<1> USE NotificationsAssumption
<1>1. /\ case.assignee \in Crew \cup {"nobody"} /\ n \in Dispatches /\ (n.type \in MoveTypes => case.filed)
      /\ (n.to = "internal" => n.type = "ticket.commented")
  BY DEF NoticesIInv, NoticesTypeOK, TicketStates, EventsOK, DispatchesOK, DispatchOK
<1>2. \A ids : UsersByIds(ids) = ids \ (muted \cup {"nobody"})
  BY DEF UsersByIds
<1>3. UsersByIds({case.assignee}) \subseteq Crew /\ CoveringAgents \subseteq Crew
  BY <1>1 DEF UsersByIds, CoveringAgents
<1>4. UsersByIds({Requester, case.assignee}) \subseteq People /\ (Requester \notin muted => Requester \in UsersByIds({Requester, case.assignee}))
  BY <1>1 DEF UsersByIds, People
<1>5. CASE OfChange(n)
  <2>1. ResolveRecipients(n) = ChangeRecipients(n) /\ n.type \notin MoveTypes /\ ~Internal(n) /\ ~Quiet(n)
    BY <1>1, <1>5 DEF ResolveRecipients, OfChange, MoveTypes, Internal, Quiet
  <2>2. ChangeRecipients(n) \subseteq People
    BY <1>5 DEF ChangeRecipients, OfChange, UsersByIds, People
  <2> QED  BY <2>1, <2>2
<1>6. CASE ~OfChange(n)
  <2>1. CASE n.type = "ticket.acknowledged"
    BY <1>1, <2>1 DEF ResolveRecipients, OfChange, TicketRecipients, UsersByIds, People, Internal, Quiet, MoveTypes
  <2>2. CASE n.type = "ticket.created"
    BY <1>1, <1>3, <2>2 DEF ResolveRecipients, OfChange, TicketRecipients, People, Internal, Quiet, MoveTypes
  <2>3. CASE n.type = "ticket.escalated"
    BY <1>1, <1>3, <2>3 DEF ResolveRecipients, OfChange, TicketRecipients, People, Internal, Quiet, MoveTypes
  <2>4. CASE n.type = "ticket.commented"
    <3>1. n.to = "internal" => TicketRecipients(n) = UsersByIds({case.assignee}) \cup CoveringAgents
      BY <2>4 DEF TicketRecipients
    <3>2. n.to # "internal" => TicketRecipients(n) = UsersByIds({Requester, case.assignee})
      BY <2>4 DEF TicketRecipients
    <3>3. ResolveRecipients(n) \in {TicketRecipients(n), {}}
      BY <2>4, <1>6 DEF ResolveRecipients
    <3> QED  BY <1>3, <1>4, <2>4, <3>1, <3>2, <3>3 DEF People, Internal, Quiet, MoveTypes
  <2>5. CASE n.type \in MoveTypes
    <3>1. ResolveRecipients(n) = TicketRecipients(n) /\ ~Internal(n)
      BY <1>1, <1>6, <2>5 DEF ResolveRecipients, Internal, MoveTypes
    <3>2. CASE n.type = "ticket.assigned"
      <4>1. TicketRecipients(n) = UsersByIds({IF n.to = "nobody" THEN case.assignee ELSE n.to, Requester})
        BY <3>2 DEF TicketRecipients
      <4>2. n.to \in Crew \cup {"nobody"}
        BY <3>2 DEF NoticesIInv, EventsOK
      <4> QED  BY <1>1, <3>1, <3>2, <4>1, <4>2 DEF UsersByIds, People, Quiet
    <3>3. CASE Quiet(n)
      BY <3>1, <3>3 DEF TicketRecipients, Quiet
    <3>4. CASE n.type # "ticket.assigned" /\ ~Quiet(n)
      <4>1. TicketRecipients(n) = UsersByIds({Requester, case.assignee})
        BY <2>5, <3>4 DEF TicketRecipients, Quiet, MoveTypes
      <4> QED  BY <1>4, <3>1, <3>4, <4>1
    <3> QED  BY <3>2, <3>3, <3>4
  <2> QED  BY <1>1, <1>6, <2>1, <2>2, <2>3, <2>4, <2>5 DEF Dispatches, EventTypes, OfChange
<1> QED  BY <1>5, <1>6

(* What a step of a dispatch makes of it.                                  *)
LEMMA BecomesNew ==
  ASSUME NoticesIInv, NEW n \in notices, NEW pc \in Stages, NEW left \in SUBSET People, Becomes(n, pc, left)
  PROVE  \E new \in Dispatches :
           /\ notices' = (notices \ {n}) \cup {new} /\ new.pc = pc /\ new.todo = left
           /\ new.type = n.type /\ new.from = n.from /\ new.to = n.to
<1> DEFINE new == [n EXCEPT !.pc = pc, !.todo = left]
<1>1. n \in Dispatches
  BY DEF NoticesIInv, NoticesTypeOK
<1>2. new \in Dispatches /\ new.pc = pc /\ new.todo = left /\ new.type = n.type /\ new.from = n.from /\ new.to = n.to
  BY <1>1 DEF Dispatches
<1>3. notices' = (notices \ {n}) \cup {new}
  BY DEF Becomes
<1> HIDE DEF new
<1> QED  BY <1>2, <1>3

(* An entry of the log is tried if it is no portal entry, and what it says *)
(* of its channel.                                                         *)
LEMMA LoggedIs ==
  ASSUME NEW n, NEW channel, NEW who, NEW status, Logged(n, channel, who, status)
  PROVE  LET row == <<n.type, channel, who, status>> IN
         /\ rows' = rows \cup {row} /\ row[1] = n.type /\ row[2] = channel /\ row[3] = who /\ row[4] = status
         /\ \A m : m.type = n.type =>
              Tried(m)' = Tried(m) \cup (IF channel # "portal" /\ status \in {"sent", "failed"} THEN {row} ELSE {})
BY DEF Logged, Tried

LEMMA DispatchStep ==
  ASSUME NoticesIInv, NEW n \in notices,
         Resolve(n) \/ PassOver(n) \/ SendTeams(n) \/ (\E r \in n.todo : SendEmail(n, r)) \/ DispatchDies(n)
  PROVE  NoticesIInv'
<1> USE NotificationsAssumption
<1>1. n \in Dispatches /\ DispatchOK(n)
  BY DEF NoticesIInv, NoticesTypeOK, DispatchesOK
<1>2. n.todo \subseteq People
  BY <1>1 DEF Dispatches
<1>3. \A new : new.type = n.type /\ new.from = n.from /\ new.to = n.to =>
        /\ Internal(new)' = Internal(n) /\ Quiet(new)' = Quiet(n) /\ EmailOnly(new)' = EmailOnly(n)
        /\ (n.type \in MoveTypes => ~EmailOnly(n))
  BY DEF Internal, Quiet, EmailOnly, MoveTypes
<1>4. CASE Resolve(n)
  <2> DEFINE pc == IF EmailOnly(n) THEN "email" ELSE "teams"
  <2>1. /\ Becomes(n, pc, ResolveRecipients(n)) /\ Logged(n, "portal", "none", "sent") /\ UNCHANGED <<moveVars, fixedVars>>
    BY <1>4 DEF Resolve
  <2>2. PICK new \in Dispatches :
           /\ notices' = (notices \ {n}) \cup {new} /\ new.pc = pc /\ new.todo = ResolveRecipients(n)
           /\ new.type = n.type /\ new.from = n.from /\ new.to = n.to
    BY <2>1, RecipientsOK, BecomesNew DEF Stages
  <2>3. Tried(new)' = Tried(new) /\ Tried(new) = Tried(n)
    BY <2>1, <2>2, LoggedIs DEF Tried
  <2>4. rows \subseteq rows' /\ \A r \in rows' \ rows : r[1] = n.type /\ r[2] = "portal" /\ r[3] = "none"
    BY <2>1, LoggedIs
  <2>5. DispatchOK(new)'
    BY <1>1, <1>3, <2>1, <2>2, <2>3, <2>4, RecipientsOK DEF DispatchOK, RequesterIsNext, RecordOK, moveVars, fixedVars
  <2> QED  BY <2>1, <2>2, <2>4, <2>5, DispatchMoves
<1>5. CASE PassOver(n)
  <2> DEFINE pc == IF n.pc = "teams" THEN "email" ELSE "done"
  <2>1. n.pc \in {"teams", "email"} /\ Becomes(n, pc, n.todo) /\ UNCHANGED <<moveVars, fixedVars>>
    BY <1>5 DEF PassOver, After
  <2>2. PICK status \in {"substituted", "skipped"} :
          /\ Logged(n, n.pc, "none", status)
          /\ status = "substituted" => ~(IF n.pc = "teams" THEN teams ELSE mail)
          /\ status = "skipped" => n.todo = {} /\ (IF n.pc = "teams" THEN teams ELSE mail)
    BY <1>5 DEF PassOver
  <2>3. PICK new \in Dispatches :
           /\ notices' = (notices \ {n}) \cup {new} /\ new.pc = pc /\ new.todo = n.todo
           /\ new.type = n.type /\ new.from = n.from /\ new.to = n.to
    BY <1>2, <2>1, BecomesNew DEF Stages
  <2>4. Tried(new)' = Tried(new) /\ Tried(new) = Tried(n)
    BY <2>2, <2>3, LoggedIs DEF Tried
  <2>5. /\ rows' = rows \cup {<<n.type, n.pc, "none", status>>}
        /\ \A r \in rows' \ rows : r[1] = n.type /\ r[2] = n.pc /\ r[3] = "none"
    BY <2>2, LoggedIs
  <2>6. Told(new)' = Told(n)
    BY <2>1, <2>4 DEF Told, fixedVars
  <2>7. RecordOK(new)'
    BY <2>1, <2>2, <2>3, <2>5 DEF RecordOK
  <2>8. n.type \in MoveTypes /\ ~Quiet(n) /\ Requester \notin muted => RequesterIsNext(new)'
    BY <1>1, <2>1, <2>2, <2>3, <2>4, <2>6 DEF DispatchOK, RequesterIsNext, Told, fixedVars
  <2>9. DispatchOK(new)'
    BY <1>1, <1>3, <2>1, <2>3, <2>4, <2>5, <2>7, <2>8 DEF DispatchOK, moveVars, fixedVars
  <2> QED  BY <2>1, <2>3, <2>5, <2>9, DispatchMoves
<1>6. CASE SendTeams(n)
  <2>1. n.pc = "teams" /\ teams /\ n.todo # {} /\ UNCHANGED <<moveVars, fixedVars>>
    BY <1>6 DEF SendTeams
  <2>2. PICK status \in {"sent", "failed"}, pc \in {"done", "email"} :
          Logged(n, "teams", "none", status) /\ Becomes(n, pc, n.todo) /\ (status = "sent" <=> pc = "done")
    BY <1>6 DEF SendTeams
  <2>3. PICK new \in Dispatches :
           /\ notices' = (notices \ {n}) \cup {new} /\ new.pc = pc /\ new.todo = n.todo
           /\ new.type = n.type /\ new.from = n.from /\ new.to = n.to
    BY <1>2, <2>2, BecomesNew DEF Stages
  <2> DEFINE row == <<n.type, "teams", "none", status>>
  <2>4. Tried(new)' = Tried(n) \cup {row} /\ row[2] = "teams" /\ row[4] = status
    BY <2>2, <2>3, LoggedIs DEF Tried
  <2>5. rows' = rows \cup {row} /\ \A r \in rows' \ rows : r[1] = n.type /\ r[2] = "teams" /\ r[3] = "none"
    BY <2>2, LoggedIs
  <2>6. status = "sent" => Told(new)' /\ row = <<n.type, "teams", "none", "sent">>
    BY <2>4 DEF Told
  <2> HIDE DEF row
  <2>7. RecordOK(new)'
    BY <2>2, <2>3, <2>5, <2>6 DEF RecordOK
  <2>8. n.type \in MoveTypes /\ ~Quiet(n) /\ Requester \notin muted => RequesterIsNext(new)'
    BY <1>1, <2>1, <2>2, <2>3, <2>4, <2>6 DEF DispatchOK, RequesterIsNext
  <2>9. DispatchOK(new)'
    BY <1>1, <1>3, <2>1, <2>3, <2>5, <2>7, <2>8 DEF DispatchOK, moveVars, fixedVars
  <2> QED  BY <2>1, <2>3, <2>5, <2>9, DispatchMoves
<1>7. ASSUME NEW r \in n.todo, SendEmail(n, r) PROVE NoticesIInv'
  <2> DEFINE pc == IF n.todo = {r} THEN "done" ELSE "email"
  <2>1. n.pc = "email" /\ mail /\ Becomes(n, pc, n.todo \ {r}) /\ UNCHANGED <<moveVars, fixedVars>>
    BY <1>7 DEF SendEmail
  <2>2. PICK status \in {"sent", "failed"} : Logged(n, "email", r, status)
    BY <1>7 DEF SendEmail
  <2>3. PICK new \in Dispatches :
           /\ notices' = (notices \ {n}) \cup {new} /\ new.pc = pc /\ new.todo = n.todo \ {r}
           /\ new.type = n.type /\ new.from = n.from /\ new.to = n.to
    BY <1>2, <2>1, BecomesNew DEF Stages
  <2> DEFINE row == <<n.type, "email", r, status>>
  <2>4. Tried(new)' = Tried(n) \cup {row} /\ row[3] = r
    BY <2>2, <2>3, LoggedIs DEF Tried
  <2>5. rows' = rows \cup {row} /\ \A q \in rows' \ rows : q[1] = n.type /\ q[2] = "email" /\ q[3] = r
    BY <2>2, LoggedIs
  <2> HIDE DEF row
  <2>6. (r = Requester \/ Told(n)) => Told(new)'
    BY <2>1, <2>4 DEF Told, fixedVars
  <2>7. RecordOK(new)'
    BY <2>3, <2>4 DEF RecordOK
  <2>8. n.type \in MoveTypes /\ ~Quiet(n) /\ Requester \notin muted => RequesterIsNext(new)'
    BY <1>1, <2>1, <2>3, <2>4, <2>6 DEF DispatchOK, RequesterIsNext
  <2>9. DispatchOK(new)'
    BY <1>1, <1>3, <2>1, <2>3, <2>5, <2>7, <2>8 DEF DispatchOK, moveVars, fixedVars
  <2> QED  BY <2>1, <2>3, <2>5, <2>9, DispatchMoves
<1>8. CASE DispatchDies(n)
  <2>1. Becomes(n, "died", n.todo) /\ UNCHANGED <<moveVars, rows, fixedVars>>
    BY <1>8 DEF DispatchDies
  <2>2. PICK new \in Dispatches :
           /\ notices' = (notices \ {n}) \cup {new} /\ new.pc = "died" /\ new.todo = n.todo
           /\ new.type = n.type /\ new.from = n.from /\ new.to = n.to
    BY <1>2, <2>1, BecomesNew DEF Stages
  <2>3. Tried(new)' = Tried(n)
    BY <2>1, <2>2 DEF Tried
  <2>4. DispatchOK(new)'
    BY <1>1, <1>3, <2>1, <2>2, <2>3 DEF DispatchOK, RequesterIsNext, RecordOK, moveVars, fixedVars
  <2> QED  BY <2>1, <2>2, <2>4, DispatchMoves
<1> QED  BY <1>4, <1>5, <1>6, <1>7, <1>8

LEMMA EventIs ==
  ASSUME NEW type \in EventTypes, NEW from \in Persons, NEW to \in Persons
  PROVE  LET e == Event(type, from, to) IN
         e \in Dispatches /\ e.type = type /\ e.from = from /\ e.to = to /\ e.pc = "published" /\ e.todo = {}
BY DEF Event, Dispatches, Stages

(* The events of an operation, in a transaction that will leave `after'.   *)
LEMMA OperatesBegins ==
  ASSUME NoticesIInv, NEW events \in SUBSET Dispatches, NEW after \in TicketStates, Operates(events, after),
         EventsOK(events), \A n \in events : n.pc = "published" /\ n.todo = {},
         (\E n \in events : n.type \in MoveTypes) => case.filed, case.filed => after.filed
  PROVE  NoticesIInv'
<1>1. case' = case /\ case \in TicketStates /\ ~began /\ began' = TRUE /\ notices' = events /\ draft' = after
      /\ UNCHANGED <<rows, fixedVars>>
  BY DEF Operates, NoticesIInv, NoticesTypeOK
<1> QED  BY <1>1, OperationBegins

(* What applyTransition publishes tells of the move once.                  *)
LEMMA MilestonesOK ==
  ASSUME NEW from \in CaseStatuses, NEW to \in CaseStatuses
  PROVE  /\ Milestones(from, to) \in SUBSET Dispatches /\ EventsOK(Milestones(from, to))
         /\ \A n \in Milestones(from, to) : n.pc = "published" /\ n.todo = {}
<1> DEFINE e(type) == Event(type, from, to)
<1>1. from \in Persons /\ to \in Persons /\ to \notin {"internal"}
  BY DEF Persons, CaseStatuses, SettledStatuses
<1>2. \A type \in MoveTypes : /\ e(type) \in Dispatches /\ e(type).type = type /\ e(type).from = from /\ e(type).to = to
                              /\ e(type).pc = "published" /\ e(type).todo = {}
  BY <1>1, EventIs DEF EventTypes
<1>3. \A n \in Milestones(from, to) : \E type \in MoveTypes \ {"ticket.assigned"} : n = e(type)
  BY DEF Milestones, MoveTypes
<1> DEFINE moved == e("ticket.status_changed")
<1>4. moved \in Milestones(from, to) /\ moved.type = "ticket.status_changed" /\ moved.from = from /\ moved.to = to
  BY <1>2 DEF Milestones, MoveTypes
<1>5. \E n \in Milestones(from, to) : ~Quiet(n) /\ \A m \in Milestones(from, to) : m # n => Quiet(m)
  <2>1. CASE from \notin SettledStatuses /\ to \notin SettledStatuses
    <3>1. Milestones(from, to) = {moved}
      BY <2>1 DEF Milestones, SettledStatuses
    <3> QED  BY <1>4, <2>1, <3>1 DEF Quiet
  <2>2. CASE from \in SettledStatuses \/ to \in SettledStatuses
    <3>1. PICK type \in MoveTypes \ {"ticket.status_changed"} : Milestones(from, to) = {moved, e(type)}
      <4>1. CASE to = "resolved"
        BY <4>1 DEF Milestones, SettledStatuses, MoveTypes
      <4>2. CASE to = "closed"
        BY <4>2 DEF Milestones, SettledStatuses, MoveTypes
      <4>3. CASE to \notin SettledStatuses
        BY <2>2, <4>3 DEF Milestones, SettledStatuses, MoveTypes
      <4> QED  BY <4>1, <4>2, <4>3 DEF SettledStatuses
    <3>2. ~Quiet(e(type)) /\ Quiet(moved)
      BY <1>2, <1>4, <2>2, <3>1 DEF Quiet
    <3> QED  BY <3>1, <3>2
  <2> QED  BY <2>1, <2>2
<1> HIDE DEF moved, e
<1>6. \A n, m \in Milestones(from, to) : n.type = m.type => n = m
  BY <1>2, <1>3
<1>7. \A n \in Milestones(from, to) : n \in Dispatches /\ n.to # "internal" /\ n.type # "ticket.assigned" /\ n.pc = "published" /\ n.todo = {}
  BY <1>1, <1>2, <1>3
<1> QED  BY <1>5, <1>6, <1>7 DEF EventsOK

LEMMA NoticesStep == NoticesIInv /\ [NoticesNext]_noticeVars => NoticesIInv'
<1> SUFFICES ASSUME NoticesIInv, [NoticesNext]_noticeVars PROVE NoticesIInv'
  OBVIOUS
<1> USE NotificationsAssumption
<1>0. NoticesTypeOK /\ EventsOK(notices) /\ BeginsBlank /\ DispatchesOK
  BY DEF NoticesIInv
<1>1. ASSUME UNCHANGED <<began, notices, rows, fixedVars>>, case' \in TicketStates, draft' \in TicketStates,
             case.filed => case'.filed, case'.filed => draft'.filed, ~began => draft' = case'
      PROVE  NoticesIInv'
  <2>1. NoticesTypeOK' /\ EventsOK(notices)' /\ BeginsBlank'
    BY <1>0, <1>1 DEF NoticesTypeOK, BeginsBlank, EventsOK, Quiet, fixedVars
  <2>2. \A n \in notices : DispatchOK(n)'
    BY <1>0, <1>1 DEF DispatchesOK, DispatchOK, RequesterIsNext, RecordOK, Told, Tried, Internal, EmailOnly, Quiet, fixedVars
  <2> QED  BY <1>1, <2>1, <2>2 DEF NoticesIInv, DispatchesOK
<1>2. CASE UNCHANGED noticeVars
  BY <1>0, <1>1, <1>2 DEF noticeVars, moveVars, NoticesTypeOK, BeginsBlank
<1>3. CASE CaseCommits \/ CaseRollsBack
  BY <1>0, <1>1, <1>3 DEF CaseCommits, CaseRollsBack, NoticesTypeOK, BeginsBlank
<1>4. CASE OthersWrite
  <2>1. PICK a \in Crew \cup {"nobody"} : case' = [case EXCEPT !.assignee = a]
    BY <1>4 DEF OthersWrite
  <2>2. case' \in TicketStates /\ case'.filed = case.filed /\ draft' = case'
    BY <1>0, <1>4, <2>1 DEF OthersWrite, NoticesTypeOK, TicketStates
  <2> QED  BY <1>0, <1>1, <1>4, <2>2 DEF OthersWrite
<1>5. CASE Dispatch
  BY <1>5, DispatchStep DEF Dispatch
<1>6. case \in TicketStates /\ case.status \in CaseStatuses /\ {"none", "sender"} \subseteq Persons
  BY <1>0 DEF NoticesTypeOK, TicketStates, Persons
<1>15. /\ "none" \in Persons /\ "sender" \in Persons
       /\ "ticket.created" \in EventTypes /\ "ticket.acknowledged" \in EventTypes
  BY DEF Persons, EventTypes
<1>7. CASE CreateTicket \/ IngestMessage
  <2> DEFINE opened == Event("ticket.created", "none", "none")
             ack    == Event("ticket.acknowledged", "none", IF CreateTicket THEN "none" ELSE "sender")
             after  == [case EXCEPT !.filed = TRUE]
  <2>1. /\ opened \in Dispatches /\ opened.type = "ticket.created" /\ opened.to = "none"
        /\ opened.pc = "published" /\ opened.todo = {}
    BY <1>15, EventIs
  <2>2. /\ ack \in Dispatches /\ ack.type = "ticket.acknowledged" /\ ack.to # "internal"
        /\ ack.pc = "published" /\ ack.todo = {}
    <3> DEFINE to == IF CreateTicket THEN "none" ELSE "sender"
    <3>1. to \in Persons /\ to # "internal"
      BY <1>15
    <3> HIDE DEF to
    <3> QED  BY <1>15, <3>1, EventIs DEF to
  <2>3. /\ ~began /\ began' = TRUE /\ notices' = {opened, ack} /\ draft' = after /\ case' \in {case, after}
        /\ UNCHANGED <<rows, fixedVars>>
    BY <1>7 DEF CreateTicket, IngestMessage, Operates
  <2>4. after \in TicketStates /\ after.filed
    BY <1>6 DEF TicketStates
  <2> HIDE DEF opened, ack, after
  <2>5. EventsOK({opened, ack}) /\ ~\E n \in {opened, ack} : n.type \in MoveTypes
    BY <2>1, <2>2 DEF EventsOK, MoveTypes
  <2> QED  BY <1>6, <2>1, <2>2, <2>3, <2>4, <2>5, OperationBegins
<1>8. ASSUME NEW s \in CaseStatuses, ApplyTransition(s) PROVE NoticesIInv'
  <2> DEFINE events == Milestones(case.status, s)
             after  == [case EXCEPT !.status = s]
  <2>1. after \in TicketStates /\ after.filed = case.filed
    BY <1>6 DEF TicketStates
  <2>2. case.filed /\ Operates(events, after)
    BY <1>8 DEF ApplyTransition
  <2>3. events \in SUBSET Dispatches /\ EventsOK(events) /\ \A n \in events : n.pc = "published" /\ n.todo = {}
    BY <1>6, MilestonesOK
  <2> HIDE DEF events, after
  <2> QED  BY <2>1, <2>2, <2>3, OperatesBegins
<1>9. ASSUME NEW type \in EventTypes, NEW from \in Persons, NEW to \in Persons, NEW after \in TicketStates,
             Operates({Event(type, from, to)}, after), type \in MoveTypes => case.filed, case.filed => after.filed,
             to = "internal" => type = "ticket.commented", type = "ticket.assigned" => to \in Crew \cup {"nobody"},
             type # "ticket.status_changed"
      PROVE  NoticesIInv'
  <2>1. PICK e \in Dispatches : /\ e = Event(type, from, to) /\ e.type = type /\ e.to = to
                               /\ e.pc = "published" /\ e.todo = {}
    BY EventIs
  <2>2. EventsOK({e})
    BY <1>9, <2>1 DEF EventsOK, Quiet
  <2> QED  BY <1>9, <2>1, <2>2, OperatesBegins
<1>10. ASSUME NEW a \in Crew \cup {"nobody"}, AssignTicket(a) PROVE NoticesIInv'
  <2>1. PICK after \in TicketStates : /\ Operates({Event("ticket.assigned", "none", a)}, after) /\ after.filed = case.filed
    <3> DEFINE after == [case EXCEPT !.assignee = a, !.status = IF case.status = "triage" THEN "in_progress" ELSE case.status]
    <3>1. after \in TicketStates /\ after.filed = case.filed
      BY <1>6 DEF TicketStates, CaseStatuses
    <3>2. Operates({Event("ticket.assigned", "none", a)}, after)
      BY <1>10 DEF AssignTicket
    <3> QED  BY <3>1, <3>2
  <2>2. a \in Persons /\ a # "internal" /\ case.filed
    BY <1>10 DEF AssignTicket, Persons, People
  <2> QED  BY <1>6, <1>9, <2>1, <2>2 DEF EventTypes, MoveTypes
<1>11. ASSUME NEW v \in {"internal", "customer"}, AddComment(v) PROVE NoticesIInv'
  BY <1>6, <1>9, <1>11 DEF AddComment, EventTypes, MoveTypes, Persons
<1>12. CASE EscalateCase
  <2>1. PICK after \in TicketStates : /\ Operates({Event("ticket.escalated", "none", "none")}, after) /\ after.filed = case.filed
    <3> DEFINE after == [case EXCEPT !.assignee = "nobody", !.status = IF case.status = "triage" THEN "in_progress" ELSE case.status]
    <3>1. after \in TicketStates /\ after.filed = case.filed
      BY <1>6 DEF TicketStates, CaseStatuses
    <3>2. Operates({Event("ticket.escalated", "none", "none")}, after)
      BY <1>12 DEF EscalateCase
    <3> QED  BY <3>1, <3>2
  <2> QED  BY <1>6, <1>9, <2>1 DEF EventTypes, MoveTypes
<1>13. CASE SubmitForCab
  <2>1. PICK after \in TicketStates : /\ Operates({Event("change.cab_requested", "none", "none")}, after) /\ after.filed = case.filed
    <3> DEFINE after == [case EXCEPT !.balloted = TRUE]
    <3>1. after \in TicketStates /\ after.filed = case.filed
      BY <1>6 DEF TicketStates
    <3>2. Operates({Event("change.cab_requested", "none", "none")}, after)
      BY <1>13 DEF SubmitForCab
    <3> QED  BY <3>1, <3>2
  <2> QED  BY <1>6, <1>9, <2>1 DEF EventTypes, MoveTypes
<1>14. ASSUME NEW v \in Board, ChangeMoves(v) PROVE NoticesIInv'
  <2> DEFINE about(t) == IF t = "change.vote_cast" THEN v ELSE "none"
             e(t) == Event(t, about(t), "none")
             cabTypes == {"change.cab_requested", "change.vote_cast", "change.approved", "change.vote_overdue"}
  <2>1. PICK types \in SUBSET cabTypes : Operates({e(t) : t \in types}, case)
    BY <1>14 DEF ChangeMoves
  <2>2. ASSUME NEW t \in types
        PROVE  /\ e(t) \in Dispatches /\ e(t).type = t /\ e(t).to = "none" /\ e(t).pc = "published" /\ e(t).todo = {}
               /\ t \notin MoveTypes
    <3>1. about(t) \in Persons /\ t \in EventTypes /\ t \notin MoveTypes
      BY <1>15 DEF Persons, People, EventTypes, MoveTypes
    <3> HIDE DEF about
    <3> QED  BY <1>15, <3>1, EventIs
  <2> HIDE DEF e, cabTypes
  <2> DEFINE events == {e(t) : t \in types}
  <2>3. /\ \A n \in events : /\ n \in Dispatches /\ n.type \notin MoveTypes /\ n.to = "none"
                             /\ n.pc = "published" /\ n.todo = {}
        /\ \A n, m \in events : n.type = m.type => n = m
    BY <2>2
  <2>4. Operates(events, case)
    BY <2>1
  <2> HIDE DEF events
  <2>5. EventsOK(events)
    BY <2>3 DEF EventsOK, MoveTypes
  <2> QED  BY <1>6, <2>3, <2>4, <2>5, OperatesBegins
<1> QED  BY <1>2, <1>3, <1>4, <1>5, <1>7, <1>8, <1>10, <1>11, <1>12, <1>13, <1>14 DEF NoticesNext

(* A move whose dispatch ends is told to the requester once, what is for   *)
(* the desk stays inside, and a dispatch that ended has an account of all  *)
(* it was for: for any crew, board and channels (notifications.ts).        *)
THEOREM MovesAreToldOnce == NoticesSpec => []ToldOnce
BY NoticesInitOK, NoticesStep, HeardOfOne, PTL DEF NoticesSpec

-----------------------------------------------------------------------------
(* GroupAccess: groups are as approved.                                    *)

GroupPlans == [named : SUBSET Groups, size : Nat, ids : SUBSET Groups, exchange : SUBSET Groups,
               dynamic : SUBSET Groups, missing : SUBSET Groups, withheld : SUBSET Groups, skipped : SUBSET Groups]
GroupRuns == [plan : GroupPlans, status : {"running", "failed", "succeeded"}, asked : SUBSET Groups]
Noting == {"noting", "listing", "listed", "reviewing", "reviewed"}
Grantees == [pc : {"idle", "planned", "joining"} \cup Noting, plan : GroupPlans \cup {{}}, token : GroupPlans \cup {{}},
             todo : SUBSET Groups, failed : BOOLEAN, reached : {"groups", "nothing", "account"}, run : Nat]

GroupTypeOK ==
  /\ answers \in GroupAnswers /\ decided \in {"requested", "approved", "rejected"}
  /\ present \in SUBSET Groups /\ held \in SUBSET Groups /\ members \in SUBSET Groups
  /\ previews \in SUBSET GroupPlans /\ groupRuns \in Seq(GroupRuns)
  /\ grantee \in [Provisioners -> Grantees]
  /\ groupCounts \in [changes : Nat, faults : Nat]

(* A group that can carry a role is in a plan because somebody named it.   *)
PlansAreNamed == \A plan \in previews : plan.ids \cap Privileged \subseteq plan.named

(* Every run is of a plan that was previewed and had nothing missing.      *)
RunsArePreviewed == \A k \in DOMAIN groupRuns : groupRuns[k].plan \in previews /\ groupRuns[k].plan.missing = {}

(* A request at work carries the plan of its run, which is running for as  *)
(* long as groups are joined; what is no longer to do has been joined, or  *)
(* a failure is known, and the note is still to come.                      *)
RowOK(row) ==
  /\ row.pc = "planned" => row.token \in previews /\ row.reached = "groups"
  /\ row.pc \notin {"idle", "planned"} => row.run \in DOMAIN groupRuns /\ row.plan = groupRuns[row.run].plan
  /\ row.pc = "joining" => /\ groupRuns[row.run].status = "running" /\ row.reached = "groups"
                           /\ row.todo \subseteq row.plan.ids
                           /\ row.failed \/ row.plan.ids \ row.todo \subseteq members
  /\ row.pc \in Noting => groupRuns[row.run].status # "running"
  /\ row.pc = "noting" /\ groupRuns[row.run].status = "succeeded" => row.reached = "groups" /\ ~Unsettled(row.plan)

RequestsOK == \A p \in Provisioners : RowOK(grantee[p])

OneJoins == \A p, q \in Provisioners : grantee[p].pc = "joining" /\ grantee[q].pc = "joining" => p = q

GroupIInv ==
  GroupTypeOK /\ PlansAreNamed /\ RunsArePreviewed /\ RequestsOK /\ OneJoins /\ AccessAsApproved

LEMMA UnreadOK == Unread \in Grantees /\ Unread.pc = "idle" /\ RowOK(Unread)
BY DEF Unread, Grantees, RowOK, Noting

LEMMA GroupInitOK == GroupsInit => GroupIInv
<1> SUFFICES ASSUME GroupsInit PROVE GroupIInv
  OBVIOUS
<1>1. GroupTypeOK /\ groupRuns = << >> /\ members = {} /\ previews = {}
  BY UnreadOK, EmptySeq DEF GroupsInit, GroupTypeOK
<1>2. \A p \in Provisioners : grantee[p] = Unread
  BY DEF GroupsInit
<1>3. DOMAIN groupRuns = {}
  BY <1>1
<1> QED  BY <1>1, <1>2, <1>3, UnreadOK
         DEF GroupIInv, PlansAreNamed, RunsArePreviewed, RequestsOK, OneJoins, AccessAsApproved,
             OnlyWhatWasApproved, NothingIsDropped

(* buildPlan: whatever the answers and the directory, a plan has its type, *)
(* and names the groups with roles that it asks for.                       *)
LEMMA PlanIsSound ==
  ASSUME GroupTypeOK PROVE GroupPlan \in GroupPlans /\ GroupPlan.ids \cap Privileged \subseteq GroupPlan.named
<1> USE GroupAccessAssumption
<1> DEFINE byName == {answers.names[i] : i \in DOMAIN answers.names}
           wanted == byName \cup Copied
           size  == Len(answers.names) + Cardinality(Copied \ byName)
<1>1. answers.names \in Seq(Groups)
  BY DEF GroupTypeOK
<1>2. byName \subseteq Groups /\ Len(answers.names) \in Nat
  BY <1>1
<1>3. Copied \in SUBSET Plain /\ Copied \in SUBSET Groups /\ Withheld \in SUBSET Groups
  BY DEF Copied, Withheld, GroupTypeOK, Groups
<1>4. size \in Nat
  BY <1>2, <1>3, FS_Subset, FS_CardinalityType
<1>5. wanted \cap Privileged \subseteq byName
  BY <1>3
<1>6. held \cap (Lists \cup Dynamics) \in SUBSET Groups
  BY DEF GroupTypeOK
<1> HIDE DEF byName, size
<1>7. /\ GroupPlan.ids = wanted \cap present \cap (Plain \cup Privileged) /\ GroupPlan.named = byName
      /\ GroupPlan \in GroupPlans
  BY <1>2, <1>3, <1>4, <1>6 DEF GroupPlan, GroupPlans, byName, size
<1> QED  BY <1>5, <1>7

(* One request takes a step that leaves the runs alone.                    *)
LEMMA GranteeMoves ==
  ASSUME GroupIInv, NEW p \in Provisioners, NEW to \in Grantees, grantee' = [grantee EXCEPT ![p] = to],
         UNCHANGED <<worldVars, groupRuns>>, members \subseteq members', members' \in SUBSET Groups,
         previews' = previews, groupCounts' \in [changes : Nat, faults : Nat], groupCounts'.faults >= groupCounts.faults,
         RowOK(to)', to.pc = "joining" => grantee[p].pc = "joining",
         grantee[p].pc = "noting" => groupCounts'.faults > 0, OnlyWhatWasApproved'
  PROVE  GroupIInv'
<1> USE DEF GroupIInv
<1>1. GroupTypeOK' /\ PlansAreNamed' /\ RunsArePreviewed'
  BY DEF GroupTypeOK, PlansAreNamed, RunsArePreviewed, worldVars
<1>2. \A q \in Provisioners : grantee'[q] = IF q = p THEN to ELSE grantee[q]
  BY DEF GroupTypeOK
<1>3. \A row : RowOK(row) => RowOK(row)'
  BY DEF RowOK
<1>4. RequestsOK' /\ OneJoins'
  BY <1>2, <1>3 DEF RequestsOK, OneJoins
<1>5. NothingIsDropped'
  BY <1>2 DEF NothingIsDropped, AccessAsApproved, GroupTypeOK
<1> QED  BY <1>1, <1>4, <1>5 DEF AccessAsApproved

(* Steps of the world, and whatever leaves the requests alone.             *)
LEMMA RequestsUntouched ==
  ASSUME GroupIInv, GroupTypeOK', UNCHANGED <<grantee, groupRuns, members>>,
         previews \subseteq previews', PlansAreNamed', groupCounts'.faults >= groupCounts.faults
  PROVE  GroupIInv'
<1> USE DEF GroupIInv
<1>1. \A row : RowOK(row) => RowOK(row)'
  BY DEF RowOK
<1>2. RequestsOK' /\ OneJoins' /\ RunsArePreviewed'
  BY <1>1 DEF RequestsOK, OneJoins, RunsArePreviewed
<1>3. AccessAsApproved'
  BY DEF AccessAsApproved, OnlyWhatWasApproved, NothingIsDropped, GroupTypeOK
<1> QED  BY <1>2, <1>3

(* A run is written by the request that carries it: its status only while  *)
(* that request joins groups.                                              *)
LEMMA RunIsWritten ==
  ASSUME GroupIInv, NEW p \in Provisioners, grantee[p].pc \in {"joining", "noting"},
         NEW run \in GroupRuns, run.plan = grantee[p].plan,
         groupRuns' = [groupRuns EXCEPT ![grantee[p].run] = run],
         run.status = groupRuns[grantee[p].run].status \/ grantee[p].pc = "joining",
         NEW to \in Grantees, grantee' = [grantee EXCEPT ![p] = to],
         to.run = grantee[p].run, to.plan = grantee[p].plan,
         UNCHANGED <<worldVars, members, previews, groupCounts>>, to.pc \in Noting, run.status # "running",
         to.pc = "noting" /\ run.status = "succeeded" => to.reached = "groups" /\ ~Unsettled(to.plan),
         run.status = "succeeded" =>
           /\ run.plan.ids \subseteq members
           /\ \/ (run.plan.exchange \cup run.plan.dynamic \cup run.plan.withheld) \subseteq run.asked
              \/ to.pc = "noting"
  PROVE  GroupIInv'
<1> USE DEF GroupIInv
<1> DEFINE k == grantee[p].run
<1>1. RowOK(grantee[p]) /\ grantee[p] \in Grantees
  BY DEF RequestsOK, GroupTypeOK
<1>2. k \in DOMAIN groupRuns /\ grantee[p].plan = groupRuns[k].plan
  BY <1>1 DEF RowOK
<1>3. DOMAIN groupRuns = 1..Len(groupRuns)
  BY LenProperties DEF GroupTypeOK
<1>4. groupRuns' \in Seq(GroupRuns) /\ DOMAIN groupRuns' = DOMAIN groupRuns
  BY <1>2, <1>3, ExceptSeq, LenProperties DEF GroupTypeOK
<1>5. \A j \in DOMAIN groupRuns : groupRuns'[j] = IF j = k THEN run ELSE groupRuns[j]
  BY <1>2, <1>3, ExceptSeq DEF GroupTypeOK
<1>6. GroupTypeOK' /\ PlansAreNamed'
  BY <1>4 DEF GroupTypeOK, PlansAreNamed, worldVars
<1>7. \A q \in Provisioners : grantee'[q] = IF q = p THEN to ELSE grantee[q]
  BY DEF GroupTypeOK
<1>8. RunsArePreviewed'
  BY <1>2, <1>4, <1>5 DEF RunsArePreviewed
<1>9. ASSUME NEW q \in Provisioners PROVE RowOK(grantee[q])'
  <2>1. CASE q = p
    BY <1>2, <1>4, <1>5, <1>7, <2>1 DEF RowOK, Unsettled, Noting
  <2>2. CASE q # p
    <3>1. grantee'[q] = grantee[q] /\ RowOK(grantee[q])
      BY <1>7, <2>2 DEF RequestsOK
    <3>2. grantee[q].pc \in {"joining"} \cup Noting /\ grantee[q].run = k => run.status = groupRuns[k].status
      BY <1>1, <2>2, <3>1 DEF RowOK, OneJoins
    <3> QED  BY <1>2, <1>4, <1>5, <3>1, <3>2 DEF RowOK, Unsettled, Noting
  <2> QED  BY <2>1, <2>2
<1>10. RequestsOK' /\ OneJoins'
  BY <1>7, <1>9 DEF RequestsOK, OneJoins, Noting
<1>11. OnlyWhatWasApproved'
  BY DEF AccessAsApproved, OnlyWhatWasApproved
<1>12. NothingIsDropped'
  BY <1>2, <1>4, <1>5, <1>7 DEF AccessAsApproved, NothingIsDropped, RunsArePreviewed
<1> QED  BY <1>6, <1>8, <1>10, <1>11, <1>12 DEF AccessAsApproved

(* A run starts: of a plan that was previewed, while no other is running.  *)
LEMMA RunStarts == ASSUME GroupIInv, NEW p \in Provisioners, StartRun(p) PROVE GroupIInv'
<1> USE DEF GroupIInv
<1>1. RowOK(grantee[p]) /\ grantee[p] \in Grantees
  BY DEF RequestsOK, GroupTypeOK
<1>2. CASE Refused(p) \/ Len(groupRuns) = MaxGroupRuns
  <2>1. grantee' = [grantee EXCEPT ![p] = Unread] /\ UNCHANGED <<worldVars, members, previews, groupRuns, groupCounts>>
    BY <1>2 DEF StartRun, Turns
  <2>2. RowOK(Unread)'
    BY UnreadOK DEF RowOK, Noting, Unread
  <2>3. OnlyWhatWasApproved' /\ grantee[p].pc = "planned"
    BY <2>1 DEF AccessAsApproved, OnlyWhatWasApproved, StartRun
  <2>4. /\ members \subseteq members' /\ members' \in SUBSET Groups /\ groupCounts' \in [changes : Nat, faults : Nat]
        /\ groupCounts'.faults >= groupCounts.faults
    BY <2>1 DEF GroupTypeOK
  <2> QED  BY <2>1, <2>2, <2>3, <2>4, UnreadOK, GranteeMoves
<1>3. CASE ~(Refused(p) \/ Len(groupRuns) = MaxGroupRuns)
  <2> DEFINE plan == grantee[p].plan
             run  == [plan |-> plan, status |-> "running", asked |-> {}]
             n    == Len(groupRuns) + 1
             to   == [grantee[p] EXCEPT !.pc = "joining", !.todo = plan.ids, !.run = n]
  <2>1. /\ groupRuns' = Append(groupRuns, run) /\ grantee' = [grantee EXCEPT ![p] = to]
        /\ UNCHANGED <<worldVars, members, previews, groupCounts>> /\ grantee[p].pc = "planned"
    BY <1>3 DEF StartRun, Turns
  <2>2. plan \in previews /\ plan \in GroupPlans /\ plan.missing = {}
    BY <1>1, <1>3, <2>1 DEF Refused, RowOK, GroupTypeOK
  <2>3. run \in GroupRuns
    BY <2>2 DEF GroupRuns
  <2>4. DOMAIN groupRuns = 1..Len(groupRuns) /\ Len(groupRuns) \in Nat
    BY LenProperties DEF GroupTypeOK
  <2>5. /\ groupRuns' \in Seq(GroupRuns) /\ Len(groupRuns') = n /\ groupRuns'[n] = run
        /\ \A k \in DOMAIN groupRuns : groupRuns'[k] = groupRuns[k]
    BY <2>1, <2>3, <2>4, AppendProperties DEF GroupTypeOK
  <2>6. DOMAIN groupRuns' = DOMAIN groupRuns \cup {n} /\ n \notin DOMAIN groupRuns
    BY <2>4, <2>5, LenProperties
  <2>7. plan.ids \in SUBSET Groups /\ n \in Nat
    BY <2>2, <2>4 DEF GroupPlans
  <2>8. /\ to \in Grantees /\ to.pc = "joining" /\ to.todo = plan.ids /\ to.run = n /\ to.plan = plan
        /\ to.reached = grantee[p].reached
    BY <1>1, <2>7 DEF Grantees
  <2>9. \A k \in DOMAIN groupRuns : groupRuns[k].status # "running"
    BY <1>3 DEF Refused
  <2>10. \A q \in Provisioners : grantee'[q] = IF q = p THEN to ELSE grantee[q]
    BY <2>1 DEF GroupTypeOK
  <2> HIDE DEF to, run, n
  <2>11. GroupTypeOK' /\ PlansAreNamed'
    BY <2>1, <2>5, <2>8 DEF GroupTypeOK, PlansAreNamed, worldVars
  <2>12. RunsArePreviewed'
    BY <2>1, <2>2, <2>5, <2>6 DEF RunsArePreviewed, run
  <2>13. \A q \in Provisioners : grantee[q].pc # "joining"
    BY <2>9 DEF RequestsOK, RowOK
  <2>14. ASSUME NEW q \in Provisioners, q # p PROVE RowOK(grantee[q])'
    <3>1. RowOK(grantee[q]) /\ grantee'[q] = grantee[q]
      BY <2>10, <2>14 DEF RequestsOK
    <3> QED  BY <2>1, <2>5, <2>6, <3>1 DEF RowOK, Noting
  <2>15. grantee[p].reached = "groups" /\ plan \in GroupPlans
    BY <1>1, <2>1, <2>2 DEF RowOK
  <2>16. RowOK(grantee[p])'
    <3>1. grantee'[p] = to /\ groupRuns'[n].plan = plan /\ groupRuns'[n].status = "running" /\ n \in DOMAIN groupRuns'
      BY <2>5, <2>6, <2>10 DEF run
    <3> QED  BY <2>8, <2>15, <3>1 DEF RowOK, Noting
  <2>17. RequestsOK' /\ OneJoins'
    BY <2>8, <2>10, <2>13, <2>14, <2>16 DEF RequestsOK, OneJoins
  <2>18. OnlyWhatWasApproved'
    BY <2>1 DEF AccessAsApproved, OnlyWhatWasApproved
  <2>19. NothingIsDropped'
    <3> SUFFICES ASSUME NEW k \in DOMAIN groupRuns', groupRuns'[k].status = "succeeded"
                 PROVE  /\ groupRuns'[k].plan.missing = {} /\ groupRuns'[k].plan.ids \subseteq members'
                        /\ \/ (groupRuns'[k].plan.exchange \cup groupRuns'[k].plan.dynamic
                               \cup groupRuns'[k].plan.withheld) \subseteq groupRuns'[k].asked
                           \/ groupCounts'.faults > 0
                           \/ \E q \in Provisioners : grantee'[q].run = k /\ grantee'[q].pc = "noting"
      BY DEF NothingIsDropped
    <3>1. k \in DOMAIN groupRuns /\ groupRuns'[k] = groupRuns[k]
      BY <2>5, <2>6 DEF run
    <3>2. \A q \in Provisioners : grantee[q].pc = "noting" => grantee'[q] = grantee[q]
      BY <2>1, <2>10
    <3> QED  BY <2>1, <3>1, <3>2 DEF AccessAsApproved, NothingIsDropped
  <2> QED  BY <2>11, <2>12, <2>17, <2>18, <2>19 DEF AccessAsApproved
<1> QED  BY <1>2, <1>3

(* What follows a run's end keeps its plan and its run.                    *)
LEMMA NoteMoves ==
  ASSUME GroupIInv, NEW p \in Provisioners, grantee[p].pc \in Noting, NEW pc \in Noting \ {"noting"}
  PROVE  LET to == [grantee[p] EXCEPT !.pc = pc]
         IN  /\ to \in Grantees /\ RowOK(to) /\ to.pc = pc /\ to.run = grantee[p].run /\ to.plan = grantee[p].plan
             /\ to.reached = grantee[p].reached
<1>1. RowOK(grantee[p]) /\ grantee[p] \in Grantees
  BY DEF GroupIInv, RequestsOK, GroupTypeOK
<1> QED  BY <1>1 DEF RowOK, Grantees, Noting

(* The order of the best efforts.                                          *)
LEMMA NextEffort ==
  /\ AfterNote["noting"] = "listing" /\ AfterNote["listing"] = "reviewing" /\ AfterNote["listed"] = "reviewing"
  /\ AfterNote["reviewing"] = "idle" /\ AfterNote["reviewed"] = "idle" /\ DOMAIN AfterNote = Noting
BY DEF AfterNote, Noting

(* A request that proceeds is done, or at the next of its best efforts.    *)
LEMMA ProceedsMoves ==
  ASSUME GroupIInv, NEW p \in Provisioners, grantee[p].pc \in Noting, Proceeds(p)
  PROVE  \E to \in Grantees :
           /\ grantee' = [grantee EXCEPT ![p] = to] /\ RowOK(to)
           /\ to.pc \in {"idle"} \cup (Noting \ {"noting"})
           /\ grantee[p].pc = "noting" =>
                to.pc \in Noting /\ to.run = grantee[p].run /\ to.plan = grantee[p].plan
<1>1. CASE grantee[p].pc \in {"reviewing", "reviewed"}
  <2>1. grantee' = [grantee EXCEPT ![p] = Unread]
    BY <1>1, NextEffort DEF Proceeds, Turns
  <2> QED  BY <1>1, <2>1, UnreadOK
<1>2. CASE grantee[p].pc \in {"noting", "listing", "listed"}
  <2> DEFINE pc == IF grantee[p].pc = "noting" THEN "listing" ELSE "reviewing"
  <2>1. grantee' = [grantee EXCEPT ![p] = [grantee[p] EXCEPT !.pc = pc]]
    BY <1>2, NextEffort DEF Proceeds, Turns
  <2>2. pc \in Noting \ {"noting"}
    BY DEF Noting
  <2> HIDE DEF pc
  <2> DEFINE to == [grantee[p] EXCEPT !.pc = pc]
  <2>3. /\ to \in Grantees /\ RowOK(to) /\ to.pc = pc /\ to.run = grantee[p].run /\ to.plan = grantee[p].plan
        /\ grantee' = [grantee EXCEPT ![p] = to]
    BY <2>1, <2>2, NoteMoves
  <2> HIDE DEF to
  <2> QED  BY <2>2, <2>3
<1> QED  BY <1>1, <1>2 DEF Noting

(* The steps of one request.                                               *)
GroupStepsOf(p) ==
  \/ BeginProvision(p) \/ StartRun(p) \/ FailEarly(p) \/ EndRun(p) \/ NoteOutcome(p)
  \/ LookForTask(p) \/ LeaveTask(p) \/ WriteFails(p) \/ ProvisionerDies(p)
  \/ \E g \in Groups : Join(p, g)

(* A request takes a step without a fault.                                 *)
LEMMA CalmMoves ==
  ASSUME GroupIInv, NEW p \in Provisioners, NEW to \in Grantees, grantee' = [grantee EXCEPT ![p] = to],
         UNCHANGED <<worldVars, groupRuns, previews, groupCounts>>, members \subseteq members', members' \in SUBSET Groups,
         RowOK(to)', to.pc = "joining" => grantee[p].pc = "joining", grantee[p].pc # "noting", OnlyWhatWasApproved'
  PROVE  GroupIInv'
<1>1. groupCounts' \in [changes : Nat, faults : Nat] /\ groupCounts'.faults >= groupCounts.faults
  BY DEF GroupIInv, GroupTypeOK
<1> QED  BY <1>1, GranteeMoves

LEMMA RequestSteps == ASSUME GroupIInv, NEW p \in Provisioners, GroupStepsOf(p) PROVE GroupIInv'
<1> USE DEF GroupIInv
<1>1. RowOK(grantee[p]) /\ grantee[p] \in Grantees
  BY DEF RequestsOK, GroupTypeOK
<1>2. OnlyWhatWasApproved /\ members \in SUBSET Groups /\ groupCounts \in [changes : Nat, faults : Nat]
  BY DEF AccessAsApproved, GroupTypeOK
<1>3. CASE BeginProvision(p)
  <2>1. PICK token \in previews :
          grantee' = [grantee EXCEPT ![p] = [Unread EXCEPT !.pc = "planned", !.plan = GroupPlan, !.token = token]]
    BY <1>3 DEF BeginProvision, Turns
  <2>2. PICK to \in Grantees : to = [Unread EXCEPT !.pc = "planned", !.plan = GroupPlan, !.token = token]
    BY PlanIsSound DEF GroupTypeOK, Unread, Grantees
  <2>3. to.pc = "planned" /\ to.token = token /\ to.reached = "groups"
    BY <2>2 DEF Unread
  <2>4. /\ UNCHANGED <<worldVars, groupRuns, members, previews, groupCounts>> /\ grantee[p].pc = "idle"
        /\ grantee' = [grantee EXCEPT ![p] = to]
    BY <1>3, <2>1, <2>2 DEF BeginProvision
  <2>5. RowOK(to)' /\ OnlyWhatWasApproved'
    BY <1>2, <2>1, <2>3, <2>4 DEF RowOK, Noting, OnlyWhatWasApproved
  <2> QED  BY <1>2, <2>3, <2>4, <2>5, CalmMoves
<1>4. CASE LookForTask(p) \/ LeaveTask(p)
  <2>1. grantee[p].pc \in Noting \ {"noting"} /\ UNCHANGED <<worldVars, groupRuns, members, previews, groupCounts>>
    BY <1>4 DEF LookForTask, LeaveTask, Noting
  <2>2. PICK to \in Grantees : /\ grantee' = [grantee EXCEPT ![p] = to] /\ RowOK(to)
                               /\ to.pc \in {"idle"} \cup (Noting \ {"noting"})
    <3>1. CASE Proceeds(p)
      BY <2>1, <3>1, ProceedsMoves
    <3>2. CASE ~Proceeds(p)
      <4>1. grantee[p].pc \in {"listing", "reviewing"} /\
            grantee' = [grantee EXCEPT ![p] = [grantee[p] EXCEPT !.pc = IF TaskKey(p) = "exchange" THEN "listed" ELSE "reviewed"]]
        BY <1>4, <3>2 DEF LookForTask, LeaveTask, Turns
      <4> DEFINE pc == IF TaskKey(p) = "exchange" THEN "listed" ELSE "reviewed"
      <4>2. pc \in Noting \ {"noting"} /\ grantee[p].pc \in Noting
        BY <2>1 DEF Noting
      <4> DEFINE to == [grantee[p] EXCEPT !.pc = pc]
      <4>3. grantee' = [grantee EXCEPT ![p] = to]
        BY <4>1
      <4> HIDE DEF pc
      <4>4. to \in Grantees /\ RowOK(to) /\ to.pc = pc
        BY <4>2, NoteMoves
      <4> HIDE DEF to
      <4> QED  BY <4>2, <4>3, <4>4
    <3> QED  BY <3>1, <3>2
  <2>3. RowOK(to)' /\ to.pc # "joining" /\ OnlyWhatWasApproved'
    BY <1>2, <2>1, <2>2 DEF RowOK, Noting, OnlyWhatWasApproved
  <2> QED  BY <1>2, <2>1, <2>2, <2>3, CalmMoves
<1>5. CASE WriteFails(p) \/ ProvisionerDies(p)
  <2>1. UNCHANGED <<worldVars, groupRuns, members, previews>> /\ groupCounts' = [groupCounts EXCEPT !.faults = @ + 1]
    BY <1>5 DEF WriteFails, ProvisionerDies
  <2>2. /\ groupCounts' \in [changes : Nat, faults : Nat] /\ groupCounts'.faults >= groupCounts.faults
        /\ groupCounts'.faults > 0
    BY <1>2, <2>1
  <2>3. PICK to \in Grantees : /\ grantee' = [grantee EXCEPT ![p] = to] /\ RowOK(to) /\ to.pc # "joining"
    <3>1. CASE WriteFails(p)
      <4>1. grantee[p].pc \in Noting /\ Proceeds(p)
        BY <3>1 DEF WriteFails, AfterNote, Noting
      <4> QED  BY <4>1, ProceedsMoves DEF Noting
    <3>2. CASE ProvisionerDies(p)
      BY <3>2, UnreadOK DEF ProvisionerDies, Turns
    <3> QED  BY <1>5, <3>1, <3>2
  <2>4. RowOK(to)' /\ OnlyWhatWasApproved'
    BY <1>2, <2>1, <2>3 DEF RowOK, OnlyWhatWasApproved
  <2> QED  BY <1>2, <2>1, <2>2, <2>3, <2>4, GranteeMoves
<1>6. ASSUME NEW g \in Groups, Join(p, g) PROVE GroupIInv'
  <2>1. /\ grantee[p].pc = "joining" /\ g \in grantee[p].todo /\ members \subseteq members'
        /\ members' \subseteq members \cup {g} /\ UNCHANGED <<worldVars, previews, groupRuns, groupCounts>>
    BY <1>6 DEF Join
  <2>2. PICK to \in Grantees : /\ grantee' = [grantee EXCEPT ![p] = to] /\ to.todo = grantee[p].todo \ {g}
                               /\ to.plan = grantee[p].plan /\ to.run = grantee[p].run /\ to.pc = "joining"
                               /\ to.reached = grantee[p].reached
                               /\ (to.failed \/ (to.failed = grantee[p].failed /\ g \in members'))
    <3> DEFINE well == [grantee[p] EXCEPT !.todo = grantee[p].todo \ {g}]
               ill  == [grantee[p] EXCEPT !.todo = grantee[p].todo \ {g}, !.failed = TRUE]
    <3>1. well \in Grantees /\ ill \in Grantees
      BY <1>1 DEF Grantees
    <3>2. \/ grantee' = [grantee EXCEPT ![p] = well] /\ g \in members'
          \/ grantee' = [grantee EXCEPT ![p] = ill]
      BY <1>6 DEF Join, Turns
    <3>3. /\ well.todo = grantee[p].todo \ {g} /\ well.plan = grantee[p].plan /\ well.run = grantee[p].run
          /\ well.pc = grantee[p].pc /\ well.reached = grantee[p].reached /\ well.failed = grantee[p].failed
      BY <1>1 DEF Grantees
    <3>4. /\ ill.todo = grantee[p].todo \ {g} /\ ill.plan = grantee[p].plan /\ ill.run = grantee[p].run
          /\ ill.pc = grantee[p].pc /\ ill.reached = grantee[p].reached /\ ill.failed
      BY <1>1 DEF Grantees
    <3> HIDE DEF well, ill
    <3> QED  BY <2>1, <3>1, <3>2, <3>3, <3>4
  <2>3. RowOK(to)'
    BY <1>1, <2>1, <2>2 DEF RowOK, Noting
  <2>4. g \in grantee[p].plan.ids /\ grantee[p].plan \in previews
    BY <1>1, <2>1 DEF RowOK, RunsArePreviewed, Noting
  <2>5. OnlyWhatWasApproved'
    BY <1>2, <2>1, <2>4 DEF OnlyWhatWasApproved, PlansAreNamed
  <2> QED  BY <1>2, <2>1, <2>2, <2>3, <2>5, CalmMoves
<1>7. CASE FailEarly(p)
  <2> DEFINE k   == grantee[p].run
             run == [groupRuns[k] EXCEPT !.status = "failed"]
  <2>1. PICK reached \in {"nothing", "account"} :
          grantee' = [grantee EXCEPT ![p] = [grantee[p] EXCEPT !.pc = "noting", !.reached = reached]]
    BY <1>7 DEF FailEarly, Turns
  <2> DEFINE to == [grantee[p] EXCEPT !.pc = "noting", !.reached = reached]
  <2>2. /\ grantee[p].pc = "joining" /\ groupRuns' = [groupRuns EXCEPT ![k] = run]
        /\ UNCHANGED <<worldVars, members, previews, groupCounts>>
    BY <1>7 DEF FailEarly
  <2>3. groupRuns[k] \in GroupRuns /\ groupRuns[k].plan = grantee[p].plan
    BY <1>1, <2>2 DEF RowOK, GroupTypeOK, Noting
  <2>4. run \in GroupRuns /\ run.plan = grantee[p].plan /\ run.status = "failed"
    BY <2>3 DEF GroupRuns
  <2>5. to \in Grantees /\ to.run = k /\ to.plan = grantee[p].plan /\ to.pc = "noting"
    BY <1>1, <2>1 DEF Grantees, Noting
  <2>6. grantee' = [grantee EXCEPT ![p] = to]
    BY <2>1 DEF to
  <2> HIDE DEF run, to
  <2> QED  BY <2>2, <2>4, <2>5, <2>6, RunIsWritten DEF Noting
<1>8. CASE EndRun(p)
  <2> DEFINE k   == grantee[p].run
             to  == [grantee[p] EXCEPT !.pc = "noting"]
  <2>1. PICK status \in {"succeeded", "failed"} :
          /\ grantee[p].failed \/ Unsettled(grantee[p].plan) => status = "failed"
          /\ groupRuns' = [groupRuns EXCEPT ![k].status = status]
    BY <1>8 DEF EndRun
  <2> DEFINE run == [groupRuns[k] EXCEPT !.status = status]
  <2>2. /\ grantee[p].pc = "joining" /\ grantee[p].todo = {} /\ groupRuns' = [groupRuns EXCEPT ![k] = run]
        /\ UNCHANGED <<worldVars, members, previews, groupCounts>> /\ grantee' = [grantee EXCEPT ![p] = to]
    BY <1>8, <2>1 DEF EndRun, Turns
  <2>3. groupRuns[k] \in GroupRuns /\ groupRuns[k].plan = grantee[p].plan
    BY <1>1, <2>2 DEF RowOK, GroupTypeOK, Noting
  <2>4. run \in GroupRuns /\ run.plan = grantee[p].plan /\ run.status = status
    BY <2>1, <2>3 DEF GroupRuns
  <2>5. /\ to \in Grantees /\ to.run = k /\ to.plan = grantee[p].plan /\ to.pc = "noting"
        /\ to.reached = grantee[p].reached
    BY <1>1 DEF Grantees, Noting
  <2>6. grantee[p].reached = "groups" /\ (grantee[p].failed \/ grantee[p].plan.ids \subseteq members)
    BY <1>1, <2>2 DEF RowOK
  <2>7. status = "succeeded" => ~Unsettled(grantee[p].plan) /\ grantee[p].plan.ids \subseteq members
    BY <2>1, <2>6
  <2>8. to.pc = "noting" /\ run.status = "succeeded" => to.reached = "groups" /\ ~Unsettled(to.plan)
    BY <2>4, <2>5, <2>6, <2>7
  <2>9. run.status # "running"
    BY <2>1, <2>4
  <2> HIDE DEF run, to
  <2> QED  BY <2>2, <2>4, <2>5, <2>7, <2>8, <2>9, RunIsWritten DEF Noting
<1>9. CASE NoteOutcome(p)
  <2> DEFINE k    == grantee[p].run
             plan == grantee[p].plan
             asks == plan.withheld \cup (IF GroupsKnown(p) THEN plan.exchange \cup plan.dynamic ELSE {})
             run  == [groupRuns[k] EXCEPT !.asked = asks]
  <2>1. /\ grantee[p].pc = "noting" /\ grantee[p].pc \in Noting /\ Proceeds(p)
        /\ groupRuns' = [groupRuns EXCEPT ![k] = run] /\ UNCHANGED <<worldVars, members, previews, groupCounts>>
    BY <1>9 DEF NoteOutcome, Noting
  <2>2. PICK to \in Grantees : /\ grantee' = [grantee EXCEPT ![p] = to] /\ RowOK(to) /\ to.pc \in Noting \ {"noting"}
                               /\ to.run = k /\ to.plan = plan
    <3>1. "idle" \notin Noting
      BY DEF Noting
    <3> QED  BY <2>1, <3>1, ProceedsMoves
  <2>3. k \in DOMAIN groupRuns /\ groupRuns[k] \in GroupRuns /\ groupRuns[k].plan = plan /\ groupRuns[k].status # "running"
    BY <1>1, <2>1 DEF RowOK, GroupTypeOK, Noting
  <2>4. plan \in GroupPlans
    BY <2>3 DEF GroupRuns
  <2>5. asks \in SUBSET Groups
    BY <2>4 DEF GroupPlans
  <2>6. run \in GroupRuns /\ run.plan = plan /\ run.status = groupRuns[k].status /\ run.asked = asks
    BY <2>3, <2>5 DEF GroupRuns
  <2>7. groupRuns[k].status = "succeeded" => GroupsKnown(p) /\ plan.ids \subseteq members
    BY <1>1, <2>1, <2>3 DEF RowOK, GroupsKnown, AccessAsApproved, NothingIsDropped
  <2>8. groupRuns[k].status = "succeeded" => (plan.exchange \cup plan.dynamic \cup plan.withheld) \subseteq asks
    BY <2>7
  <2> HIDE DEF run, asks
  <2> QED  BY <2>1, <2>2, <2>3, <2>6, <2>7, <2>8, RunIsWritten
<1> QED  BY <1>3, <1>4, <1>5, <1>6, <1>7, <1>8, <1>9, RunStarts DEF GroupStepsOf

(* Every step of a world, a request or a run preserves the invariant.      *)
LEMMA GroupStep == GroupIInv /\ [GroupsNext]_groupVars => GroupIInv'
<1> SUFFICES ASSUME GroupIInv, [GroupsNext]_groupVars PROVE GroupIInv'
  OBVIOUS
<1> USE DEF GroupIInv
<1>1. CASE UNCHANGED groupVars
  <2>1. GroupTypeOK' /\ PlansAreNamed' /\ groupCounts'.faults >= groupCounts.faults
    BY <1>1 DEF groupVars, worldVars, GroupTypeOK, PlansAreNamed
  <2> QED  BY <1>1, <2>1, RequestsUntouched DEF groupVars
<1>2. CASE WorldChanges
  <2>1. /\ answers' \in GroupAnswers /\ decided' = decided /\ present' \in SUBSET Groups
        /\ held' \in SUBSET Groups
    BY <1>2 DEF WorldChanges, GroupTypeOK
  <2>2. /\ groupCounts' \in [changes : Nat, faults : Nat] /\ groupCounts'.faults = groupCounts.faults
    BY <1>2 DEF WorldChanges, GroupTypeOK
  <2>3. UNCHANGED <<members, previews, groupRuns, grantee>>
    BY <1>2 DEF WorldChanges
  <2>4. GroupTypeOK' /\ PlansAreNamed' /\ groupCounts'.faults >= groupCounts.faults
    BY <2>1, <2>2, <2>3 DEF GroupTypeOK, PlansAreNamed
  <2> QED  BY <2>3, <2>4, RequestsUntouched
<1>3. CASE Decide
  <2>1. GroupTypeOK' /\ PlansAreNamed' /\ groupCounts'.faults >= groupCounts.faults
    BY <1>3 DEF Decide, GroupTypeOK, PlansAreNamed
  <2> QED  BY <1>3, <2>1, RequestsUntouched DEF Decide
<1>4. CASE Preview
  <2>1. GroupTypeOK' /\ PlansAreNamed' /\ groupCounts'.faults >= groupCounts.faults
    BY <1>4, PlanIsSound DEF Preview, worldVars, GroupTypeOK, PlansAreNamed
  <2> QED  BY <1>4, <2>1, RequestsUntouched DEF Preview
<1>5. CASE \E t \in tasks : TickOff(t)
  <2>1. UNCHANGED <<worldVars, members, previews, groupRuns, grantee, groupCounts>>
    BY <1>5 DEF TickOff
  <2>2. GroupTypeOK' /\ PlansAreNamed' /\ groupCounts'.faults >= groupCounts.faults
    BY <2>1 DEF worldVars, GroupTypeOK, PlansAreNamed
  <2> QED  BY <2>1, <2>2, RequestsUntouched
<1>6. ASSUME NEW p \in Provisioners, GroupStepsOf(p) PROVE GroupIInv'
  BY <1>6, RequestSteps
<1> QED  BY <1>1, <1>2, <1>3, <1>4, <1>5, <1>6 DEF GroupsNext, GroupStepsOf

(* What a new user is a member of was previewed and approved, whatever     *)
(* happens to the answers, the directory and the requests in between, and  *)
(* a run that succeeded dropped nothing in silence: for any groups and     *)
(* any number of requests (provisioning/index.ts).                         *)
THEOREM GroupsAreAsApproved == GroupsSpec => []AccessAsApproved
<1>1. GroupIInv => AccessAsApproved
  BY DEF GroupIInv
<1> QED  BY <1>1, GroupInitOK, GroupStep, PTL DEF GroupsSpec

-----------------------------------------------------------------------------
(* SensitiveAnswers: values are stored on open requests only, and every    *)
(* destroyed one is on record or about to be.                              *)

Edits == [pc : {"idle", "editing", "attaching"}, case : Cases \cup {"none"}, values : SUBSET Keys]
Purges == [pc : {"idle", "purging", "recording"}, taken : [Cases -> SUBSET Keys], todo : SUBSET Cases]

AnswersTypeOK ==
  /\ desk \in [Cases -> {"open", "done", "old", "gone"}] /\ stored \in [Cases -> SUBSET Keys]
  /\ holder \in [Cases -> Editors \cup {Unheld}]
  /\ edit \in [Editors -> Edits] /\ purge \in [Purgers -> Purges]
  /\ destroyed \in [Cases -> Nat] /\ evidence \in [Cases -> Nat]

(* An edit holds its case, which nobody resolves meanwhile.                *)
HoldsOpen ==
  \A e \in Editors : edit[e].pc # "idle" =>
    edit[e].case \in Cases /\ holder[edit[e].case] = e /\ desk[edit[e].case] = "open"

(* A purge has nothing to record before it commits, and has taken all that *)
(* is stored of the tickets that go with it.                               *)
TakesAll ==
  \A p \in Purgers :
    /\ purge[p].pc # "recording" => purge[p].todo = {}
    /\ purge[p].pc = "purging" => \A t \in Cases : desk[t] = "old" => purge[p].taken[t] = stored[t]

AnswersIInv == AnswersTypeOK /\ HoldsOpen /\ TakesAll /\ EvidenceKept

LEMMA NothingTaken ==
  /\ NoPurge \in Purges /\ NoPurge.pc = "idle" /\ NoPurge.todo = {}
  /\ NoEdit \in Edits /\ NoEdit.pc = "idle"
BY DEF NoPurge, Purges, NoEdit, Edits

(* What a purge took of a case counts once among what is unrecorded.       *)
LEMMA CountTaken ==
  ASSUME NEW L \in SUBSET (Purgers \X Keys), NEW p \in Purgers, NEW taken \in SUBSET Keys,
         \A e \in L : e[1] # p
  PROVE  /\ Cardinality(L) \in Nat /\ Cardinality(taken) \in Nat
         /\ Cardinality(L \cup ({p} \X taken)) = Cardinality(L) + Cardinality(taken)
<1>1. IsFiniteSet(Purgers) /\ IsFiniteSet(Keys)
  BY AnswersAssumption
<1>2. IsFiniteSet(L)
  BY <1>1, FS_Product, FS_Subset
<1>3. IsFiniteSet(taken) /\ IsFiniteSet({p}) /\ Cardinality({p}) = 1
  BY <1>1, FS_Subset, FS_Singleton
<1>4. Cardinality(L) \in Nat /\ Cardinality(taken) \in Nat
  BY <1>2, <1>3, FS_CardinalityType
<1>5. IsFiniteSet({p} \X taken) /\ Cardinality({p} \X taken) = 1 * Cardinality(taken)
  BY <1>3, FS_Product
<1>6. L \cap ({p} \X taken) = {}
  OBVIOUS
<1>7. Cardinality(L \cup ({p} \X taken)) = Cardinality(L) + Cardinality({p} \X taken) - 0
  BY <1>2, <1>5, <1>6, FS_Union, FS_EmptySet
<1> QED  BY <1>4, <1>5, <1>7

LEMMA AnswersInitOK == AnswersInit => AnswersIInv
<1> SUFFICES ASSUME AnswersInit PROVE AnswersIInv
  OBVIOUS
<1>1. AnswersTypeOK
  BY NothingTaken DEF AnswersInit, AnswersTypeOK
<1>2. HoldsOpen /\ TakesAll
  BY NothingTaken DEF AnswersInit, HoldsOpen, TakesAll
<1>3. \A t \in Cases : Unrecorded(t) = {}
  BY NothingTaken DEF AnswersInit, Unrecorded
<1>4. EvidenceKept
  BY <1>3, FS_EmptySet DEF AnswersInit, EvidenceKept, Outstanding
<1> QED  BY <1>1, <1>2, <1>4 DEF AnswersIInv

(* A step that leaves the purges alone leaves the count alone.             *)
LEMMA CountStays ==
  ASSUME EvidenceKept, UNCHANGED <<purge, trailVars>>
  PROVE  EvidenceKept'
BY DEF EvidenceKept, Outstanding, Unrecorded, trailVars

LEMMA CaseMovesKeep ==
  ASSUME AnswersIInv, NEW t \in Cases, CaseMoves(t)
  PROVE  AnswersIInv'
<1>1. PICK to \in {"open", "done", "old"} :
        /\ to = "old" => \A p \in Purgers : purge[p].pc # "purging"
        /\ desk' = [desk EXCEPT ![t] = to]
  BY DEF CaseMoves
<1>2. holder[t] = Unheld /\ UNCHANGED <<holder, stored, edit, purge, trailVars>>
  BY DEF CaseMoves
<1>3. AnswersTypeOK'
  BY <1>1, <1>2 DEF AnswersIInv, AnswersTypeOK, trailVars
<1>4. HoldsOpen'
  BY <1>1, <1>2, AnswersAssumption DEF AnswersIInv, AnswersTypeOK, HoldsOpen
<1>5. TakesAll'
  BY <1>1, <1>2 DEF AnswersIInv, AnswersTypeOK, TakesAll
<1> QED  BY <1>2, <1>3, <1>4, <1>5, CountStays DEF AnswersIInv

LEMMA EditBeginsKeeps ==
  ASSUME AnswersIInv, NEW e \in Editors, NEW t \in Cases, EditBegins(e, t)
  PROVE  AnswersIInv'
<1>1. PICK record \in [pc : {"editing", "attaching"}, case : {t}, values : SUBSET Keys] :
        edit' = [edit EXCEPT ![e] = record]
  BY DEF EditBegins
<1>2. /\ desk[t] = "open" /\ holder[t] = Unheld /\ holder' = [holder EXCEPT ![t] = e]
      /\ UNCHANGED <<desk, stored, purge, trailVars>>
  BY DEF EditBegins, HoldCase
<1>3. record \in Edits /\ record.case = t
  BY <1>1 DEF Edits
<1>4. AnswersTypeOK'
  BY <1>1, <1>2, <1>3 DEF AnswersIInv, AnswersTypeOK, trailVars
<1>5. HoldsOpen'
  BY <1>1, <1>2, <1>3, AnswersAssumption DEF AnswersIInv, AnswersTypeOK, HoldsOpen
<1>6. TakesAll'
  BY <1>2 DEF AnswersIInv, TakesAll
<1> QED  BY <1>2, <1>4, <1>5, <1>6, CountStays DEF AnswersIInv

LEMMA EditEndsKeeps ==
  ASSUME AnswersIInv, NEW e \in Editors, EditCommits(e) \/ AttachCommits(e) \/ AttachDies(e) \/ EditFails(e)
  PROVE  AnswersIInv' /\ \A t \in Cases : stored'[t] \subseteq stored[t] \/ desk[t] = "open"
<1> DEFINE t == edit[e].case
<1>1. /\ t \in Cases /\ holder[t] = e /\ desk[t] = "open" /\ edit[e] \in Edits
      /\ edit' = [edit EXCEPT ![e] = NoEdit]
      /\ holder' = [u \in Cases |-> IF holder[u] = e THEN Unheld ELSE holder[u]]
      /\ UNCHANGED <<desk, purge, trailVars>>
  BY DEF AnswersIInv, AnswersTypeOK, HoldsOpen, EditCommits, AttachCommits, AttachDies, EditFails, EditEnds, ReleaseCase
<1>2. PICK values \in SUBSET Keys : stored' = [stored EXCEPT ![t] = values]
  <2>1. edit[e].values \in SUBSET Keys /\ stored[t] \in SUBSET Keys /\ stored = [stored EXCEPT ![t] = stored[t]]
    BY <1>1 DEF Edits, AnswersIInv, AnswersTypeOK
  <2>2. CASE EditCommits(e)
    BY <2>1, <2>2 DEF EditCommits
  <2>3. CASE AttachDies(e)
    BY <2>1, <2>3 DEF AttachDies
  <2>4. CASE AttachCommits(e) \/ EditFails(e)
    BY <2>1, <2>4 DEF AttachCommits, EditFails
  <2> QED  BY <2>2, <2>3, <2>4
<1> HIDE DEF t
<1>3. AnswersTypeOK'
  BY <1>1, <1>2, NothingTaken DEF AnswersIInv, AnswersTypeOK, trailVars
<1>4. HoldsOpen'
  BY <1>1, <1>2, NothingTaken DEF AnswersIInv, AnswersTypeOK, HoldsOpen
<1>5. TakesAll'
  BY <1>1, <1>2 DEF AnswersIInv, AnswersTypeOK, TakesAll
<1>6. \A u \in Cases : stored'[u] \subseteq stored[u] \/ desk[u] = "open"
  BY <1>1, <1>2 DEF AnswersIInv, AnswersTypeOK
<1> QED  BY <1>1, <1>3, <1>4, <1>5, <1>6, CountStays DEF AnswersIInv

(* A step of a purge that leaves cases, values and edits alone.            *)
LEMMA PurgeMoves ==
  ASSUME AnswersIInv, NEW p \in Purgers, NEW record \in Purges, purge' = [purge EXCEPT ![p] = record],
         record.pc # "recording" => record.todo = {},
         record.pc = "purging" => \A t \in Cases : desk[t] = "old" => record.taken[t] = stored[t],
         UNCHANGED <<desk, holder, stored, edit, destroyed>>, evidence' \in [Cases -> Nat]
  PROVE  AnswersTypeOK' /\ HoldsOpen' /\ TakesAll'
BY DEF AnswersIInv, AnswersTypeOK, HoldsOpen, TakesAll

LEMMA PurgeBeforeCommitKeeps ==
  ASSUME AnswersIInv, NEW p \in Purgers, PurgePii(p) \/ PurgeFails(p)
  PROVE  AnswersIInv'
<1> DEFINE taken == [t \in Cases |-> IF t \in Terminal THEN stored[t] ELSE {}]
           taking == [NoPurge EXCEPT !.pc = "purging", !.taken = taken]
<1>1. taking \in Purges /\ taking.pc = "purging" /\ taking.todo = {} /\ taking.taken = taken
  BY NothingTaken DEF Purges, AnswersIInv, AnswersTypeOK
<1>2. \A t \in Cases : desk[t] = "old" => taken[t] = stored[t]
  BY DEF Terminal
<1> HIDE DEF taken
<1>3. \E record \in Purges :
        /\ record.todo = {} /\ record.pc # "recording" /\ purge' = [purge EXCEPT ![p] = record]
        /\ record.pc = "purging" => record.taken = taken
  BY <1>1, NothingTaken DEF PurgePii, PurgeFails, taken
<1>4. purge[p].todo = {} /\ UNCHANGED <<desk, holder, stored, edit, trailVars>>
  BY DEF PurgePii, PurgeFails, caseVars, AnswersIInv, TakesAll
<1>5. AnswersTypeOK' /\ HoldsOpen' /\ TakesAll'
  BY <1>2, <1>3, <1>4, PurgeMoves DEF AnswersIInv, AnswersTypeOK, trailVars
<1>6. \A t : Unrecorded(t)' = Unrecorded(t)
  BY <1>3, <1>4 DEF Unrecorded, AnswersIInv, AnswersTypeOK
<1>7. EvidenceKept'
  BY <1>4, <1>6 DEF AnswersIInv, EvidenceKept, Outstanding, trailVars
<1> QED  BY <1>5, <1>7 DEF AnswersIInv
(* What a purge took is what is lost, also of the tickets that go: it has  *)
(* become what is unrecorded of each case.                                 *)
LEMMA PurgeCommitsKeeps ==
  ASSUME AnswersIInv, NEW p \in Purgers, PurgeCommits(p)
  PROVE  AnswersIInv' /\ \A t \in Cases : stored'[t] \subseteq stored[t]
<1> DEFINE taken == purge[p].taken
           old == {t \in Cases : desk[t] = "old"}
           lost == [t \in Cases |-> IF t \in old THEN stored[t] ELSE taken[t]]
           record == IF Recorded(taken) = {} THEN NoPurge
                     ELSE [purge[p] EXCEPT !.pc = "recording", !.todo = Recorded(taken)]
<1>1. /\ purge[p] \in Purges /\ purge[p].todo = {} /\ purge[p].pc = "purging"
      /\ taken \in [Cases -> SUBSET Keys]
  BY DEF AnswersIInv, AnswersTypeOK, TakesAll, Purges, PurgeCommits
<1>2. \A t \in Cases : lost[t] = taken[t] /\ lost[t] \in SUBSET Keys
  BY <1>1 DEF AnswersIInv, TakesAll
<1>3. /\ desk' = [t \in Cases |-> IF t \in old THEN "gone" ELSE desk[t]]
      /\ stored' = [t \in Cases |-> stored[t] \ lost[t]]
      /\ destroyed' = [t \in Cases |-> destroyed[t] + Cardinality(lost[t])]
      /\ purge' = [purge EXCEPT ![p] = record]
      /\ UNCHANGED <<holder, edit, evidence, unwritten>>
  BY DEF PurgeCommits
<1>4. Recorded(taken) = {t \in Cases : taken[t] # {}}
  BY DEF Recorded
<1>5. /\ record \in Purges /\ record.pc \in {"idle", "recording"} /\ record.todo = Recorded(taken)
      /\ record.pc # "recording" => record.todo = {}
      /\ record.todo # {} => record.taken = taken
  BY <1>1, <1>4, NothingTaken DEF Purges
<1>6. \A t \in Cases : Cardinality(lost[t]) \in Nat
  BY <1>2, AnswersAssumption, FS_Subset, FS_CardinalityType
<1>7. ~(\E t \in Cases : desk'[t] = "old")
  BY <1>3
<1> HIDE DEF record, lost
<1>8. AnswersTypeOK'
  BY <1>3, <1>5, <1>6 DEF AnswersIInv, AnswersTypeOK
<1>9. HoldsOpen'
  BY <1>3 DEF AnswersIInv, AnswersTypeOK, HoldsOpen
<1>10. TakesAll'
  BY <1>3, <1>5, <1>7 DEF AnswersIInv, AnswersTypeOK, TakesAll
<1>11. EvidenceKept'
  <2> SUFFICES ASSUME NEW t \in Cases \ unwritten
               PROVE  evidence[t] + Cardinality(Unrecorded(t)') = destroyed'[t]
    BY <1>3 DEF EvidenceKept, Outstanding
  <2>1. evidence[t] + Cardinality(Unrecorded(t)) = destroyed[t] /\ evidence[t] \in Nat
    BY DEF AnswersIInv, AnswersTypeOK, EvidenceKept, Outstanding
  <2>2. Unrecorded(t) \in SUBSET (Purgers \X Keys) /\ \A e \in Unrecorded(t) : e[1] # p
    BY <1>1 DEF Unrecorded
  <2>3. Unrecorded(t)' = Unrecorded(t) \cup ({p} \X taken[t])
    <3>1. ASSUME NEW q \in Purgers, NEW k \in Keys
          PROVE  <<q, k>> \in Unrecorded(t)' <=> <<q, k>> \in Unrecorded(t) \cup ({p} \X taken[t])
      <4>1. CASE q = p
        BY <1>1, <1>3, <1>4, <1>5, <4>1 DEF Unrecorded, AnswersIInv, AnswersTypeOK
      <4>2. CASE q # p
        BY <1>3, <4>2 DEF Unrecorded, AnswersIInv, AnswersTypeOK
      <4> QED  BY <4>1, <4>2
    <3>2. Unrecorded(t)' \in SUBSET (Purgers \X Keys) /\ {p} \X taken[t] \in SUBSET (Purgers \X Keys)
      BY <1>1 DEF Unrecorded
    <3> QED  BY <2>2, <3>1, <3>2
  <2>4. /\ Cardinality(Unrecorded(t)') = Cardinality(Unrecorded(t)) + Cardinality(taken[t])
        /\ Cardinality(Unrecorded(t)) \in Nat /\ Cardinality(taken[t]) \in Nat
    <3> DEFINE mine == taken[t]  rest == Unrecorded(t)
    <3>1. mine \in SUBSET Keys /\ rest \in SUBSET (Purgers \X Keys) /\ \A e \in rest : e[1] # p
      BY <1>1, <2>2
    <3> HIDE DEF mine, rest
    <3>2. /\ Cardinality(rest \cup ({p} \X mine)) = Cardinality(rest) + Cardinality(mine)
          /\ Cardinality(rest) \in Nat /\ Cardinality(mine) \in Nat
      BY <3>1, CountTaken
    <3> QED  BY <2>3, <3>2 DEF mine, rest
  <2>5. destroyed'[t] = destroyed[t] + Cardinality(taken[t])
    BY <1>2, <1>3
  <2> QED  BY <2>1, <2>4, <2>5
<1>12. \A t \in Cases : stored'[t] \subseteq stored[t]
  BY <1>3
<1> QED  BY <1>8, <1>9, <1>10, <1>11, <1>12 DEF AnswersIInv

(* The purge's record after it has been through with t.                    *)
LEMMA OnToNextIs ==
  ASSUME AnswersIInv, NEW p \in Purgers, NEW t \in purge[p].todo, OnToNextRecord(p, t)
  PROVE  \E record \in Purges :
           /\ purge' = [purge EXCEPT ![p] = record] /\ record.pc # "purging"
           /\ record.todo = purge[p].todo \ {t}
           /\ record.pc # "recording" => record.todo = {}
           /\ record.todo # {} => record.taken = purge[p].taken
<1> DEFINE record == IF purge[p].todo = {t} THEN NoPurge ELSE [purge[p] EXCEPT !.todo = purge[p].todo \ {t}]
<1>1. purge[p] \in Purges /\ purge[p].pc = "recording"
  BY DEF AnswersIInv, AnswersTypeOK, TakesAll, Purges
<1>2. purge' = [purge EXCEPT ![p] = record]
  BY DEF OnToNextRecord
<1>3. /\ record \in Purges /\ record.pc # "purging" /\ record.todo = purge[p].todo \ {t}
      /\ record.pc # "recording" => record.todo = {}
      /\ record.todo # {} => record.taken = purge[p].taken
  BY <1>1, NothingTaken DEF Purges
<1> HIDE DEF record
<1> QED  BY <1>2, <1>3

LEMMA TombstonesKeep ==
  ASSUME AnswersIInv, NEW p \in Purgers, NEW t \in Cases, WriteTombstone(p, t) \/ TombstoneFails(p, t)
  PROVE  AnswersIInv'
<1>1. /\ t \in purge[p].todo /\ OnToNextRecord(p, t)
      /\ UNCHANGED <<desk, holder, stored, edit, destroyed>>
  BY DEF WriteTombstone, TombstoneFails, caseVars
<1>2. PICK record \in Purges :
        /\ purge' = [purge EXCEPT ![p] = record] /\ record.pc # "purging"
        /\ record.todo = purge[p].todo \ {t}
        /\ record.pc # "recording" => record.todo = {}
        /\ record.todo # {} => record.taken = purge[p].taken
  BY <1>1, OnToNextIs
<1>3. purge[p] \in Purges /\ purge[p].taken[t] \in SUBSET Keys
  BY DEF AnswersIInv, AnswersTypeOK, Purges
<1>4. Cardinality(purge[p].taken[t]) \in Nat
  BY <1>3, AnswersAssumption, FS_Subset, FS_CardinalityType
<1>5. /\ evidence' \in [Cases -> Nat]
      /\ \A u \in Cases \ unwritten' : u \notin unwritten
           /\ evidence'[u] = evidence[u] + IF u = t THEN Cardinality(purge[p].taken[t]) ELSE 0
  BY <1>4 DEF WriteTombstone, TombstoneFails, AnswersIInv, AnswersTypeOK
<1>6. AnswersTypeOK' /\ HoldsOpen' /\ TakesAll'
  BY <1>1, <1>2, <1>5, PurgeMoves
<1>7. EvidenceKept'
  <2> SUFFICES ASSUME NEW u \in Cases \ unwritten'
               PROVE  evidence'[u] + Cardinality(Unrecorded(u)') = destroyed[u]
    BY <1>1 DEF EvidenceKept, Outstanding
  <2>1. evidence[u] + Cardinality(Unrecorded(u)) = destroyed[u] /\ evidence[u] \in Nat
    BY <1>5 DEF AnswersIInv, AnswersTypeOK, EvidenceKept, Outstanding
  <2>2. CASE u = t
    <3> DEFINE taken == purge[p].taken[t]
    <3>1. /\ Unrecorded(u) \in SUBSET (Purgers \X Keys) /\ Unrecorded(u)' \in SUBSET (Purgers \X Keys)
          /\ {p} \X taken \in SUBSET (Purgers \X Keys)
          /\ \A e \in Unrecorded(u)' : e[1] # p
      BY <1>2, <1>3, <2>2 DEF Unrecorded, AnswersIInv, AnswersTypeOK
    <3>2. ASSUME NEW q \in Purgers, NEW k \in Keys
          PROVE  <<q, k>> \in Unrecorded(u) <=> <<q, k>> \in Unrecorded(u)' \cup ({p} \X taken)
      <4>1. CASE q = p
        BY <1>1, <1>2, <2>2, <4>1 DEF Unrecorded, AnswersIInv, AnswersTypeOK
      <4>2. CASE q # p
        BY <1>2, <4>2 DEF Unrecorded, AnswersIInv, AnswersTypeOK
      <4> QED  BY <4>1, <4>2
    <3>3. Unrecorded(u) = Unrecorded(u)' \cup ({p} \X taken)
      BY <3>1, <3>2
    <3>4. /\ Cardinality(Unrecorded(u)) = Cardinality(Unrecorded(u)') + Cardinality(taken)
          /\ Cardinality(Unrecorded(u)') \in Nat
      <4> DEFINE rest == Unrecorded(u)'
      <4>1. rest \in SUBSET (Purgers \X Keys) /\ (\A e \in rest : e[1] # p) /\ taken \in SUBSET Keys
        BY <1>3, <3>1
      <4>2. Unrecorded(u) = rest \cup ({p} \X taken)
        BY <3>3
      <4> HIDE DEF taken, rest
      <4>3. Cardinality(rest \cup ({p} \X taken)) = Cardinality(rest) + Cardinality(taken) /\ Cardinality(rest) \in Nat
        BY <4>1, CountTaken
      <4> QED  BY <4>2, <4>3 DEF rest
    <3> HIDE DEF taken
    <3>5. evidence'[u] = evidence[u] + Cardinality(taken) /\ Cardinality(taken) \in Nat
      BY <1>4, <1>5, <2>2 DEF taken
    <3> QED  BY <2>1, <3>4, <3>5
  <2>3. CASE u # t
    <3>1. Unrecorded(u)' = Unrecorded(u)
      BY <1>2, <2>3 DEF Unrecorded, AnswersIInv, AnswersTypeOK
    <3>2. evidence'[u] = evidence[u]
      BY <1>5, <2>1, <2>3
    <3> QED  BY <2>1, <3>1, <3>2
  <2> QED  BY <2>2, <2>3
<1> QED  BY <1>6, <1>7 DEF AnswersIInv

LEMMA PurgerDiesKeeps ==
  ASSUME AnswersIInv, NEW p \in Purgers, PurgerDies(p)
  PROVE  AnswersIInv'
<1>1. /\ purge' = [purge EXCEPT ![p] = NoPurge] /\ unwritten' = unwritten \cup purge[p].todo
      /\ UNCHANGED <<desk, holder, stored, edit, destroyed, evidence>>
  BY DEF PurgerDies, caseVars
<1>2. AnswersTypeOK' /\ HoldsOpen' /\ TakesAll'
  BY <1>1, NothingTaken, PurgeMoves DEF AnswersIInv, AnswersTypeOK
<1>3. \A t \in Cases \ unwritten' : Unrecorded(t)' = Unrecorded(t)
  BY <1>1, NothingTaken DEF Unrecorded, AnswersIInv, AnswersTypeOK
<1>4. EvidenceKept'
  BY <1>1, <1>3 DEF AnswersIInv, EvidenceKept, Outstanding
<1> QED  BY <1>2, <1>4 DEF AnswersIInv

LEMMA AnswersStep ==
  AnswersIInv /\ [AnswersNext]_answerVars =>
    AnswersIInv' /\ [\A t \in Cases : stored'[t] \subseteq stored[t] \/ desk[t] = "open"]_answerVars
<1> SUFFICES ASSUME AnswersIInv, [AnswersNext]_answerVars
             PROVE  AnswersIInv' /\ [\A t \in Cases : stored'[t] \subseteq stored[t] \/ desk[t] = "open"]_answerVars
  OBVIOUS
<1>1. ASSUME NEW t \in Cases, CaseMoves(t) PROVE stored' = stored
  BY <1>1 DEF CaseMoves
<1>2. ASSUME NEW e \in Editors, NEW t \in Cases, EditBegins(e, t) PROVE stored' = stored
  BY <1>2 DEF EditBegins
<1>3. ASSUME NEW p \in Purgers, PurgePii(p) \/ PurgeFails(p) \/ PurgerDies(p)
      PROVE  stored' = stored
  BY <1>3 DEF PurgePii, PurgeFails, PurgerDies
<1>4. ASSUME NEW p \in Purgers, NEW t \in Cases, WriteTombstone(p, t) \/ TombstoneFails(p, t)
      PROVE  stored' = stored
  BY <1>4 DEF WriteTombstone, TombstoneFails
<1>5. CASE UNCHANGED answerVars
  BY <1>5, CountStays DEF answerVars, caseVars, trailVars, AnswersIInv, AnswersTypeOK, HoldsOpen, TakesAll
<1> QED
  BY <1>1, <1>2, <1>3, <1>4, <1>5, CaseMovesKeep, EditBeginsKeeps, EditEndsKeeps, PurgeBeforeCommitKeeps,
     PurgeCommitsKeeps, TombstonesKeep, PurgerDiesKeeps DEF AnswersNext

(* Personal values are stored on open requests only, and each that is      *)
(* destroyed is on record or about to be, however edits, resolutions,      *)
(* purges and their deaths overlap (ticket-form-edit.ts, the row lock;     *)
(* retention-purge.ts, "PII first").                                       *)
THEOREM DataIsAccounted == AnswersSpec => PersonalDataIsAccounted
<1>1. AnswersIInv => EvidenceKept
  BY DEF AnswersIInv
<1> QED  BY <1>1, AnswersInitOK, AnswersStep, PTL DEF AnswersSpec, PersonalDataIsAccounted, StoredWhileOpen

-----------------------------------------------------------------------------
(* Fulfilment: the checklist decides when its request is resolved, and     *)
(* nothing but a transition brings a finished request back.                *)

Writable == [status : AnyStatus \cup {"none"}, code : {"none", "other", "fulfilled", "rejected"}]
ClerkCalls == [pc : {"idle", "marked", "counted", "written"}, task : Tasks \cup {NoTask}, approves : BOOLEAN, write : Writable]

FulfilTypeOK ==
  /\ reqTicket \in Writable /\ todo \in SUBSET Tasks /\ ticketLock \in Clerks \cup {NoLock}
  /\ clerk \in [Clerks -> ClerkCalls]
  /\ ~Filed => \A c \in Clerks : clerk[c].pc = "idle"
  /\ Filed <=> reqTicket.status # "none"

(* What a call has written to the ticket it wrote under its lock; of what  *)
(* it found there nothing has changed since.                               *)
WritesAreLocked ==
  \A c \in Clerks : clerk[c].write # NoWrite =>
    /\ ticketLock = c /\ clerk[c].pc = "written" /\ clerk[c].write.status # "none"
    /\ clerk[c].write.status \notin Finished => reqTicket.status \notin Finished

(* Who resolves a request, or finds it resolved, has counted: no task is   *)
(* left but its own.                                                       *)
CountedIsLast ==
  /\ reqTicket.code = "fulfilled" => todo = {}
  /\ \A c \in Clerks : clerk[c].pc = "counted" \/ clerk[c].write.code = "fulfilled" => todo \subseteq {clerk[c].task}

FulfilIInv == FulfilTypeOK /\ WritesAreLocked /\ CountedIsLast

LEMMA NoCallIs ==
  /\ NoWrite \in Writable /\ NoWrite.status = "none" /\ NoWrite.code = "none"
  /\ NoCall \in ClerkCalls /\ NoCall.pc = "idle" /\ NoCall.write = NoWrite
BY DEF NoCall, NoWrite, Writable, ClerkCalls

LEMMA FulfilInitOK == FulfilInit => FulfilIInv
BY NoCallIs DEF FulfilInit, FulfilIInv, FulfilTypeOK, WritesAreLocked, CountedIsLast, Filed

Decides ==
  /\ reqTicket'.code = "fulfilled" => todo' = {}
  /\ (reqTicket.status \in Finished /\ reqTicket'.status \notin Finished) => Transition

LEMMA OrdersKeep ==
  ASSUME FulfilIInv, CreateRequest \/ Transition
  PROVE  FulfilIInv' /\ Decides
<1>1. /\ UNCHANGED <<ticketLock, clerk>> /\ reqTicket' \in Writable /\ reqTicket'.status # "none" /\ reqTicket' # NoWrite
      /\ todo' \in SUBSET Tasks
  BY NoCallIs DEF CreateRequest, Transition, FulfilIInv, FulfilTypeOK, Writable, AnyStatus
<1>2. CASE CreateRequest
  <2>1. \A c \in Clerks : clerk[c].pc = "idle" /\ clerk[c].write = NoWrite
    BY <1>2 DEF CreateRequest, FulfilIInv, FulfilTypeOK, WritesAreLocked
  <2>2. reqTicket'.code = "none" /\ reqTicket.status = "none"
    BY <1>2 DEF CreateRequest, FulfilIInv, FulfilTypeOK
  <2> QED
    BY <1>1, <2>1, <2>2, NoCallIs
       DEF FulfilIInv, FulfilTypeOK, WritesAreLocked, CountedIsLast, Filed, Decides, Finished
<1>3. CASE Transition
  <2>1. \A c \in Clerks : clerk[c].write = NoWrite
    BY <1>3, FulfilmentAssumption DEF Transition, FulfilIInv, WritesAreLocked
  <2>2. todo' = todo /\ (reqTicket'.code = "fulfilled" => reqTicket.code = "fulfilled") /\ Filed
    BY <1>3 DEF Transition
  <2> QED
    BY <1>1, <1>3, <2>1, <2>2, NoCallIs
       DEF FulfilIInv, FulfilTypeOK, WritesAreLocked, CountedIsLast, Filed, Decides
<1> QED  BY <1>2, <1>3

(* A call that goes on without a write of the ticket.                      *)
LEMMA CallGoesOn ==
  ASSUME FulfilIInv, NEW c \in Clerks, NEW record \in ClerkCalls, clerk' = [clerk EXCEPT ![c] = record],
         UNCHANGED <<reqTicket, todo, ticketLock>>, Filed, record.write = NoWrite,
         record.pc = "counted" => todo \subseteq {record.task}
  PROVE  FulfilIInv' /\ Decides
BY NoCallIs DEF FulfilIInv, FulfilTypeOK, WritesAreLocked, CountedIsLast, Filed, Decides

(* ... or with one.                                                        *)
LEMMA CallWrites ==
  ASSUME FulfilIInv, NEW c \in Clerks, NEW from \in SUBSET AnyStatus, NEW to \in Writable, WriteTicket(c, from, to),
         clerk[c].pc \in {"marked", "counted"}, to.status # "none",
         to.status \in Finished \/ from \cap Finished = {},
         to.code = "fulfilled" => todo \subseteq {clerk[c].task},
         UNCHANGED <<reqTicket, todo>>
  PROVE  FulfilIInv' /\ Decides
<1>1. clerk[c] \in ClerkCalls /\ clerk[c].write = NoWrite /\ Filed
  BY DEF FulfilIInv, FulfilTypeOK, WritesAreLocked
<1>2. CASE reqTicket.status \notin from
  <2> DEFINE record == [clerk[c] EXCEPT !.pc = "written"]
  <2>1. record \in ClerkCalls /\ record.write = NoWrite /\ record.pc = "written"
    BY <1>1 DEF ClerkCalls
  <2>2. clerk' = [clerk EXCEPT ![c] = record] /\ ticketLock' = ticketLock
    BY <1>2 DEF WriteTicket, FulfilIInv, FulfilTypeOK
  <2> HIDE DEF record
  <2> QED  BY <1>1, <2>1, <2>2, CallGoesOn
<1>3. CASE reqTicket.status \in from
  <2> DEFINE record == [clerk[c] EXCEPT !.pc = "written", !.write = to]
  <2>1. /\ record \in ClerkCalls /\ record.write = to /\ record.pc = "written" /\ record.task = clerk[c].task
        /\ to # NoWrite
    BY <1>1, NoCallIs DEF ClerkCalls
  <2>2. clerk' = [clerk EXCEPT ![c] = record] /\ ticketLock = NoLock /\ ticketLock' = c
    BY <1>3 DEF WriteTicket, FulfilIInv, FulfilTypeOK
  <2>3. \A d \in Clerks : clerk[d].write = NoWrite
    BY <2>2, FulfilmentAssumption DEF FulfilIInv, WritesAreLocked
  <2> HIDE DEF record
  <2>4. FulfilTypeOK'
    BY <1>1, <2>1, <2>2 DEF FulfilIInv, FulfilTypeOK, Filed
  <2>5. WritesAreLocked'
    BY <1>3, <2>1, <2>2, <2>3 DEF FulfilIInv, FulfilTypeOK, WritesAreLocked
  <2>6. CountedIsLast' /\ Decides
    BY <2>1, <2>2, <2>3, NoCallIs DEF FulfilIInv, FulfilTypeOK, CountedIsLast, Decides
  <2> QED  BY <2>4, <2>5, <2>6 DEF FulfilIInv
<1> QED  BY <1>2, <1>3

LEMMA AgentsKeep ==
  ASSUME FulfilIInv, NEW c \in Agents, (\E t \in Tasks : MarkTask(c, t)) \/ CountTasks(c) \/ ResolveTicket(c)
  PROVE  FulfilIInv' /\ Decides
<1>1. c \in Clerks /\ clerk[c] \in ClerkCalls
  BY DEF Clerks, FulfilIInv, FulfilTypeOK
<1>2. ASSUME NEW t \in Tasks, MarkTask(c, t)
      PROVE  FulfilIInv' /\ Decides
  <2> DEFINE record == [NoCall EXCEPT !.pc = "marked", !.task = t]
  <2>1. record \in ClerkCalls /\ record.write = NoWrite /\ record.pc = "marked"
    BY NoCallIs DEF ClerkCalls
  <2>2. clerk' = [clerk EXCEPT ![c] = record] /\ Filed /\ UNCHANGED <<reqTicket, todo, ticketLock>>
    BY <1>2 DEF MarkTask
  <2> HIDE DEF record
  <2> QED  BY <1>1, <2>1, <2>2, CallGoesOn
<1>3. CASE CountTasks(c)
  <2> DEFINE record == [clerk[c] EXCEPT !.pc = IF Remaining(c) = {} THEN "counted" ELSE "written"]
  <2>1. clerk[c].pc = "marked" /\ clerk[c].write = NoWrite /\ Filed
    BY <1>1, <1>3 DEF CountTasks, FulfilIInv, FulfilTypeOK, WritesAreLocked
  <2>2. /\ record \in ClerkCalls /\ record.write = NoWrite
        /\ record.pc = "counted" => todo \subseteq {record.task}
    BY <1>1, <2>1 DEF ClerkCalls, Remaining
  <2>3. clerk' = [clerk EXCEPT ![c] = record] /\ UNCHANGED <<reqTicket, todo, ticketLock>>
    BY <1>1, <1>3 DEF CountTasks, FulfilIInv, FulfilTypeOK
  <2> HIDE DEF record
  <2> QED  BY <1>1, <2>1, <2>2, <2>3, CallGoesOn
<1>4. CASE ResolveTicket(c)
  <2> DEFINE to == [status |-> "resolved", code |-> "fulfilled"]  from == AnyStatus \ Finished
  <2>1. /\ to \in Writable /\ to.status = "resolved" /\ to.status \in Finished
        /\ from \in SUBSET AnyStatus
    BY DEF Writable, AnyStatus, Finished
  <2>2. /\ WriteTicket(c, from, to) /\ clerk[c].pc = "counted" /\ todo \subseteq {clerk[c].task}
        /\ UNCHANGED <<reqTicket, todo>>
    BY <1>1, <1>4 DEF ResolveTicket, FulfilIInv, CountedIsLast
  <2> HIDE DEF to, from
  <2> QED  BY <1>1, <2>1, <2>2, CallWrites
<1> QED  BY <1>2, <1>3, <1>4

LEMMA DecidersKeep ==
  ASSUME FulfilIInv, NEW d \in Deciders, DecideApproval(d) \/ DecideTicket(d)
  PROVE  FulfilIInv' /\ Decides
<1>1. d \in Clerks /\ clerk[d] \in ClerkCalls
  BY DEF Clerks, FulfilIInv, FulfilTypeOK
<1>2. CASE DecideApproval(d)
  <2>1. PICK approves \in BOOLEAN :
          clerk' = [clerk EXCEPT ![d] = [NoCall EXCEPT !.pc = "marked", !.approves = approves,
                                                       !.task = IF Approval \in Tasks THEN Approval ELSE NoTask]]
    BY <1>2 DEF DecideApproval
  <2> DEFINE record == [NoCall EXCEPT !.pc = "marked", !.approves = approves,
                                      !.task = IF Approval \in Tasks THEN Approval ELSE NoTask]
  <2>2. record \in ClerkCalls /\ record.write = NoWrite /\ record.pc = "marked"
    BY NoCallIs DEF ClerkCalls
  <2>3. clerk' = [clerk EXCEPT ![d] = record] /\ Filed /\ UNCHANGED <<reqTicket, todo, ticketLock>>
    BY <1>2, <2>1 DEF DecideApproval
  <2> HIDE DEF record
  <2> QED  BY <1>1, <2>2, <2>3, CallGoesOn
<1>3. CASE DecideTicket(d)
  <2>1. /\ clerk[d].pc = "marked" /\ UNCHANGED <<reqTicket, todo>> /\ reqTicket \in Writable
        /\ reqTicket.code = "fulfilled" => todo = {}
    BY <1>3 DEF DecideTicket, FulfilIInv, FulfilTypeOK, CountedIsLast
  <2>2. CASE clerk[d].approves
    <3> DEFINE to == [status |-> "assigned", code |-> reqTicket.code]
    <3>1. /\ to \in Writable /\ to.status = "assigned" /\ to.code = reqTicket.code
          /\ {"new"} \in SUBSET AnyStatus /\ {"new"} \cap Finished = {}
      BY <2>1 DEF Writable, AnyStatus, Finished
    <3>2. WriteTicket(d, {"new"}, to)
      BY <1>3, <2>2 DEF DecideTicket
    <3> HIDE DEF to
    <3> QED  BY <1>1, <2>1, <3>1, <3>2, CallWrites
  <2>3. CASE ~clerk[d].approves
    <3> DEFINE to == [status |-> "closed", code |-> "rejected"]
    <3>1. to \in Writable /\ to.status = "closed" /\ to.code = "rejected" /\ to.status \in Finished
      BY DEF Writable, AnyStatus, Finished
    <3>2. WriteTicket(d, AnyStatus, to)
      BY <1>3, <2>3 DEF DecideTicket
    <3> HIDE DEF to
    <3> QED  BY <1>1, <2>1, <3>1, <3>2, CallWrites
  <2> QED  BY <2>2, <2>3
<1> QED  BY <1>2, <1>3

LEMMA CallsEnd ==
  ASSUME FulfilIInv, NEW c \in Clerks, CallCommits(c) \/ CallFails(c)
  PROVE  FulfilIInv' /\ Decides
<1>1. /\ clerk[c] \in ClerkCalls /\ clerk[c].pc # "idle" /\ Filed /\ reqTicket \in Writable
      /\ clerk' = [clerk EXCEPT ![c] = NoCall]
      /\ ticketLock' = IF ticketLock = c THEN NoLock ELSE ticketLock
  BY DEF FulfilIInv, FulfilTypeOK, CallCommits, CallFails, CallEnds
<1>2. \A d \in Clerks \ {c} : clerk'[d] = clerk[d] /\ (clerk[d].write # NoWrite => clerk[c].write = NoWrite)
  BY <1>1 DEF FulfilIInv, FulfilTypeOK, WritesAreLocked
<1>3. clerk'[c] = NoCall
  BY <1>1 DEF FulfilIInv, FulfilTypeOK
<1>4. /\ reqTicket' = reqTicket \/ (clerk[c].write # NoWrite /\ reqTicket' = clerk[c].write)
      /\ todo' = todo \/ todo' = todo \ {clerk[c].task}
      /\ reqTicket' # reqTicket => todo' = todo \ {clerk[c].task}
  BY DEF CallCommits, CallFails
<1>5. /\ reqTicket' \in Writable /\ reqTicket'.status # "none" /\ reqTicket' # NoWrite
      /\ reqTicket.status \in Finished => reqTicket'.status \in Finished
  BY <1>1, <1>4, NoCallIs DEF FulfilIInv, FulfilTypeOK, WritesAreLocked, ClerkCalls
<1>6. FulfilTypeOK'
  BY <1>1, <1>2, <1>3, <1>4, <1>5, NoCallIs DEF FulfilIInv, FulfilTypeOK, Filed
<1>7. WritesAreLocked'
  <2> SUFFICES ASSUME NEW d \in Clerks, clerk'[d].write # NoWrite
               PROVE  /\ ticketLock' = d /\ clerk'[d].pc = "written" /\ clerk'[d].write.status # "none"
                      /\ clerk'[d].write.status \notin Finished => reqTicket'.status \notin Finished
    BY DEF WritesAreLocked
  <2>1. d # c /\ clerk'[d] = clerk[d] /\ clerk[c].write = NoWrite
    BY <1>2, <1>3, NoCallIs
  <2>2. reqTicket' = reqTicket
    BY <1>4, <2>1
  <2> QED  BY <1>1, <2>1, <2>2 DEF FulfilIInv, WritesAreLocked
<1>8. reqTicket'.code = "fulfilled" => todo' = {}
  BY <1>4 DEF FulfilIInv, CountedIsLast
<1>9. CountedIsLast'
  BY <1>2, <1>3, <1>4, <1>8, NoCallIs DEF FulfilIInv, CountedIsLast
<1>10. Decides
  BY <1>5, <1>8 DEF Decides
<1> QED  BY <1>6, <1>7, <1>9, <1>10 DEF FulfilIInv

LEMMA FulfilStep == FulfilIInv /\ [FulfilNext]_fulfilVars => FulfilIInv' /\ [Decides]_fulfilVars
<1>1. FulfilIInv /\ UNCHANGED fulfilVars => FulfilIInv'
  BY DEF fulfilVars, FulfilIInv, FulfilTypeOK, WritesAreLocked, CountedIsLast, Filed
<1> QED  BY <1>1, OrdersKeep, AgentsKeep, DecidersKeep, CallsEnd DEF FulfilNext

(* A request its checklist resolves has no task left, and a finished one   *)
(* is brought back by a transition only, for any tasks and however calls   *)
(* overlap and fail (completeTask, decideApproval).                        *)
THEOREM ChecklistsDecide == FulfilSpec => ChecklistDecides
<1>1. ChecklistDecides <=> [][Decides]_fulfilVars
  BY PTL DEF ChecklistDecides, Decides
<1> QED  BY <1>1, FulfilInitOK, FulfilStep, PTL DEF FulfilSpec

-----------------------------------------------------------------------------
(* Operations.                                                             *)

(* The part at work takes its own step and the others rest, so that a step *)
(* of Operations is one of every part, or changes nothing in it.           *)
LEMMA StepsOfParts ==
  ASSUME [OperationsNext]_operationsVars
  PROVE  /\ [IntakeNext]_intakeVars /\ [FormNext]_formVars /\ [SurveysNext]_surveyVars /\ [StaffNext]_staffVars
         /\ [OnCallNext]_onCallVars /\ [AlertsNext]_alertVars /\ [AutomationNext]_automationVars
         /\ [NoticesNext]_noticeVars /\ [GroupsNext]_groupVars /\ [AnswersNext]_answerVars /\ [FulfilNext]_fulfilVars
<1>1. CASE RequestPartsNext /\ UNCHANGED <<responseVars, part>>
  BY <1>1 DEF RequestPartsNext, responseVars
<1>2. CASE ResponsePartsNext /\ UNCHANGED <<requestVars, part>>
  BY <1>2 DEF ResponsePartsNext, requestVars
<1>3. CASE UNCHANGED <<requestVars, responseVars>>
  BY <1>3 DEF requestVars, responseVars
<1> QED  BY <1>1, <1>2, <1>3 DEF OperationsNext, operationsVars

LEMMA PartsBehave ==
  OperationsSpec => /\ IntakeSpec /\ FormSpec /\ SurveysSpec /\ StaffSpec
                    /\ OnCallSpec /\ AlertsSpec /\ AutomationSpec /\ NoticesSpec /\ GroupsSpec
                    /\ AnswersSpec /\ FulfilSpec
<1>1. OperationsInit => /\ IntakeInit /\ FormInit /\ SurveysInit /\ StaffInit /\ AnswersInit /\ FulfilInit
                        /\ OnCallInit /\ AlertsInit /\ AutomationInit /\ NoticesInit /\ GroupsInit
  BY DEF OperationsInit
<1> QED
  BY <1>1, StepsOfParts, PTL DEF OperationsSpec, IntakeSpec, FormSpec, SurveysSpec, StaffSpec,
     OnCallSpec, AlertsSpec, AutomationSpec, NoticesSpec, GroupsSpec, AnswersSpec, FulfilSpec

(* The requester hears of each thing once: one rating for a resolution and *)
(* one message for a move, wherever else Operations is at work.            *)
THEOREM RequesterHearsOnce == OperationsSpec => []HeardOnce
<1>1. AskedOnce /\ ToldOnce => HeardOnce
  BY DEF HeardOnce
<1> QED  BY <1>1, PartsBehave, SurveyAskedOnce, MovesAreToldOnce, PTL

(* Access is what was granted: that of staff is not lost to another change *)
(* of their account, and the groups of a new user are the approved ones.   *)
THEOREM AccessIsAsGranted == OperationsSpec => []AccessAsGranted
<1>1. AccessNeverLost /\ AccessAsApproved => AccessAsGranted
  BY DEF AccessAsGranted
<1> QED  BY <1>1, PartsBehave, StaffKeepAccess, GroupsAreAsApproved, PTL

(* What the parts promise alone they promise in Operations: acknowledged   *)
(* pages are on record, alerts whole, executions done, forms read as they  *)
(* were submitted; no filing is refused, nor a mail filed more often than  *)
(* there are ticks.                                                        *)
THEOREM OperationsKeepTheirWord ==
  OperationsSpec => [](AckIsRecorded /\ AlertsAreWhole /\ ExecutedIsDone /\ ReadsAsSubmitted /\ FilingIsExact)
BY PartsBehave, AcksAreOnRecord, AlertsStayWhole, ExecutionsAreDone, FormsReadAsSubmitted, FilingsAreExact, PTL

(* The same for what the parts never do in a step: personal data is        *)
(* accounted for, and the checklist of a request decides.                  *)
THEOREM RequestsAreSettled == OperationsSpec => PersonalDataIsAccounted /\ ChecklistDecides
BY PartsBehave, DataIsAccounted, ChecklistsDecide, PTL
=============================================================================
