---------------------------- MODULE TicketIntake ----------------------------
(***************************************************************************)
(* How tickets of one organization come to be: filed through the portal or *)
(* by an agent (createTicket), synchronized by an integration under an     *)
(* external reference (upsertIntegrationTicket), and read from the service *)
(* mailbox (fetchNewMessages, ingestMessage).  All three number their      *)
(* tickets with nextTicketNumber.  A ticket is its number and what it came *)
(* from; its content is left out.                                          *)
(***************************************************************************)
EXTENDS Integers, FiniteSets, FiniteSetsExt

CONSTANTS Filers,          \* calls of createTicket from people
          Syncs,           \* calls of upsertIntegrationTicket for one external item
          Ticks,           \* mail ticks that may overlap
          Messages,        \* mails
          Replies,         \* those whose subject quotes the first ticket's number
          PrefixDigits,    \* the digits of the organization's prefix, as a number
          MaxInt,          \* the largest integer of the database's int
          MaxCalls,        \* bound on the calls under way or done
          MaxRedelivered,  \* bound on the times Graph lists a mail again
          MaxTickDeaths    \* bound on the ticks that throw or crash

Callers == Filers \cup Syncs
Free == "free"       \* the lock of the organization is free
NoMail == "no mail"
Item == "item"       \* the external reference all Syncs carry
NoLink == -1         \* no delta link is stored

ASSUME IntakeAssumption ==
  /\ Filers \cap Syncs = {} /\ Callers \cap Ticks = {} /\ Free \notin Callers \cup Ticks
  /\ Messages \cap (Filers \cup {Item}) = {}
  /\ Replies \subseteq Messages /\ IsFiniteSet(Ticks)
  /\ {PrefixDigits, MaxInt, MaxCalls, MaxRedelivered, MaxTickDeaths} \subseteq Nat

VARIABLES tickets,     \* committed rows: [number, from]
          numberLock,  \* who holds the advisory lock of the organization
          call,        \* each caller: [pc, number, tries]
          changed,     \* mailbox: when each mail changed last, 0 before it arrives
          cursor,      \* stored delta link: the changes it has behind it, or NoLink
          seen,        \* dedupe markers
          commented,   \* replies that became a comment
          tick,        \* each tick: [pc, link, batch, mail, number]
          faults       \* [redelivered, deaths]

callVars == <<call>>
mailVars == <<changed, cursor, seen, commented, tick, faults>>
intakeVars == <<tickets, numberLock, callVars, mailVars>>

NewCall == [pc |-> "idle", number |-> 0, tries |-> 1]
Ended(how) == [NewCall EXCEPT !.pc = how]
TickAt(pc, link, batch, mail) ==
  [pc |-> pc, link |-> link, batch |-> batch, mail |-> mail, number |-> 0]
NoTick == TickAt("idle", NoLink, {}, NoMail)
Reading(batch) == TickAt("reading", NoLink, batch, NoMail)

IntakeInit ==
  /\ tickets = {} /\ numberLock = Free
  /\ call = [c \in Callers |-> NewCall]
  /\ changed = [m \in Messages |-> 0] /\ cursor \in {NoLink, 0}
  /\ seen = {} /\ commented = {}
  /\ tick = [t \in Ticks |-> NoTick]
  /\ faults = [redelivered |-> 0, deaths |-> 0]

-----------------------------------------------------------------------------
(* nextTicketNumber: MAX over all digits of the ticket numbers, those of   *)
(* the prefix included, cast to int, plus one.  A number is padded to six  *)
(* digits and printed with more if it has them: Shift is the weight of the *)
(* prefix before it.                                                       *)
Shift(n) == IF n < 1000000 THEN 1000000 ELSE IF n < 10000000 THEN 10000000
            ELSE IF n < 100000000 THEN 100000000 ELSE 1000000000

FitsInt(n) ==
  IF n >= 1000000000 THEN PrefixDigits = 0 /\ n < MaxInt
                     ELSE PrefixDigits <= (MaxInt - 1 - n) \div Shift(n)

DigitsOf(n) == IF PrefixDigits = 0 THEN n ELSE PrefixDigits * Shift(n) + n

Numbering == \A row \in tickets : FitsInt(row.number)
NextNumber == Max({DigitsOf(row.number) : row \in tickets} \cup {0}) + 1

(* Mutant of TakeNumberLock: no BEGIN, the lock is gone at once. *)
TakeNumberLockForStatement(who) == numberLock = Free /\ UNCHANGED numberLock

TakeNumberLock(who) == numberLock = Free /\ numberLock' = who

DropNumberLock(who) == numberLock' = IF numberLock = who THEN Free ELSE numberLock

Collides(n) == \E row \in tickets : row.number = n
ItemFiled == \E row \in tickets : row.from = Item
File(n, source) == tickets' = tickets \cup {[number |-> n, from |-> source]}

-----------------------------------------------------------------------------
(* Bound: the calls that have begun, those rolled back apart.              *)
MayCall(c) == call[c] = NewCall => Cardinality({d \in Callers : call[d] # NewCall}) < MaxCalls

(* createTicket, one transaction per try.  A synchronized item that has a  *)
(* ticket is updated in place; a call without a reference has nothing to   *)
(* look up.                                                                *)
SyncReads(c) ==
  /\ call[c].pc = "idle" /\ MayCall(c)
  /\ call' = [call EXCEPT ![c].pc = IF ItemFiled THEN "done" ELSE "missed"]
  /\ UNCHANGED <<tickets, numberLock, mailVars>>

CallNumbers(c) ==
  /\ call[c].pc = (IF c \in Syncs THEN "missed" ELSE "idle") /\ MayCall(c)
  /\ IF Numbering
       THEN /\ TakeNumberLock(c)
            /\ call' = [call EXCEPT ![c].pc = "numbered", ![c].number = NextNumber]
       ELSE /\ numberLock = Free /\ UNCHANGED numberLock
            /\ call' = [call EXCEPT ![c].pc = "overflowed"]
  /\ UNCHANGED <<tickets, mailVars>>

(* Mutant of AfterConflict: the conflict surfaces. *)
AfterConflictRefused(c) == Ended("refused")

(* The conflict on the external reference is answered by a second try,     *)
(* which finds the ticket; any other error is the caller's.                *)
AfterConflict(c) ==
  IF call[c].tries = 1 THEN [NewCall EXCEPT !.tries = 2] ELSE Ended("refused")

CallInserts(c) ==
  /\ call[c].pc = "numbered"
  /\ DropNumberLock(c)
  /\ \/ /\ Collides(call[c].number)
        /\ call' = [call EXCEPT ![c] = Ended("collided")] /\ UNCHANGED tickets
     \/ /\ ~Collides(call[c].number) /\ c \in Syncs /\ ItemFiled
        /\ call' = [call EXCEPT ![c] = AfterConflict(c)] /\ UNCHANGED tickets
     \/ /\ ~Collides(call[c].number) /\ ~(c \in Syncs /\ ItemFiled)
        /\ call' = [call EXCEPT ![c] = Ended("done")]
        /\ File(call[c].number, IF c \in Syncs THEN Item ELSE c)
  /\ UNCHANGED mailVars

(* The transaction fails for a reason of its own and is rolled back: the   *)
(* caller is told, and may call again.                                     *)
CallAborts(c) ==
  /\ call[c].pc \in {"missed", "numbered"}
  /\ call' = [call EXCEPT ![c] = NewCall]
  /\ DropNumberLock(c)
  /\ UNCHANGED <<tickets, mailVars>>

-----------------------------------------------------------------------------
(* The mailbox: a mail arrives, and one that changes is listed again.      *)
Latest == Max({changed[m] : m \in Messages} \cup {0})

MailArrives(m) ==
  /\ changed[m] = 0
  /\ changed' = [changed EXCEPT ![m] = Latest + 1]
  /\ UNCHANGED <<tickets, numberLock, callVars, cursor, seen, commented, tick, faults>>

MailIsListedAgain(m) ==
  /\ changed[m] > 0 /\ faults.redelivered < MaxRedelivered
  /\ changed' = [changed EXCEPT ![m] = Latest + 1]
  /\ faults' = [faults EXCEPT !.redelivered = @ + 1]
  /\ UNCHANGED <<tickets, numberLock, callVars, cursor, seen, commented, tick>>

(* fetchNewMessages: the stored link is read, the mails changed since are  *)
(* fetched (none of them kept if there was no link), and the new link is   *)
(* stored before a mail is read.  No lock is held: ticks that overlap      *)
(* follow the same link, and one that is late stores an older link.        *)
TickOpens(t) ==
  /\ tick[t].pc = "idle"
  /\ tick' = [tick EXCEPT ![t] = TickAt("opened", cursor, {}, NoMail)]
  /\ UNCHANGED <<tickets, numberLock, callVars, changed, cursor, seen, commented, faults>>

Listed(link) == {m \in Messages : link # NoLink /\ changed[m] > link}

TickFetches(t) ==
  /\ tick[t].pc = "opened"
  /\ tick' = [tick EXCEPT ![t] = TickAt("fetched", Latest, Listed(tick[t].link), NoMail)]
  /\ UNCHANGED <<tickets, numberLock, callVars, changed, cursor, seen, commented, faults>>

TickStores(t) ==
  /\ tick[t].pc = "fetched"
  /\ cursor' = tick[t].link
  /\ tick' = [tick EXCEPT ![t] = Reading(tick[t].batch)]
  /\ UNCHANGED <<tickets, numberLock, callVars, changed, seen, commented, faults>>

(* ingestMessage up to its first write: duplicates are passed over, a mail *)
(* from a domain that no organization has (at this moment) is marked, and  *)
(* a reply to an existing ticket becomes a comment.                        *)
TickReads(t) ==
  /\ tick[t].pc = "reading"
  /\ \E m \in tick[t].batch :
       LET rest == tick[t].batch \ {m}
           takes(pc) == tick' = [tick EXCEPT ![t] = TickAt(pc, NoLink, rest, m)]
           passes == tick' = [tick EXCEPT ![t] = Reading(rest)] IN
       \/ m \in seen /\ passes /\ UNCHANGED <<seen, commented>>
       \/ m \notin seen /\ passes /\ seen' = seen \cup {m} /\ UNCHANGED commented
       \/ /\ m \notin seen /\ m \in Replies /\ Collides(1)
          /\ takes("commented") /\ commented' = commented \cup {m} /\ UNCHANGED seen
       \/ /\ m \notin seen /\ ~(m \in Replies /\ Collides(1))
          /\ takes("missed") /\ UNCHANGED <<seen, commented>>
  /\ UNCHANGED <<tickets, numberLock, callVars, changed, cursor, faults>>

TickMarks(t) ==
  /\ tick[t].pc = "commented"
  /\ seen' = seen \cup {tick[t].mail}
  /\ tick' = [tick EXCEPT ![t] = Reading(@.batch)]
  /\ UNCHANGED <<tickets, numberLock, callVars, changed, cursor, commented, faults>>

(* BEGIN and nextTicketNumber.                                             *)
TickNumbers(t) ==
  /\ tick[t].pc = "missed" /\ Numbering
  /\ TakeNumberLock(t)
  /\ tick' = [tick EXCEPT ![t].pc = "numbered", ![t].number = NextNumber]
  /\ UNCHANGED <<tickets, callVars, changed, cursor, seen, commented, faults>>

(* Mutant of TickInserts: the marker is written after the commit. *)
TickInsertsThenMarks(t) ==
  /\ tick[t].pc = "numbered" /\ ~Collides(tick[t].number)
  /\ File(tick[t].number, tick[t].mail)
  /\ DropNumberLock(t)
  /\ tick' = [tick EXCEPT ![t].pc = "commented"]
  /\ UNCHANGED <<callVars, changed, cursor, seen, commented, faults>>

(* The ticket and the dedupe marker commit together; an insert that fails  *)
(* ends the tick (TickDies).                                               *)
TickInserts(t) ==
  /\ tick[t].pc = "numbered" /\ ~Collides(tick[t].number)
  /\ File(tick[t].number, tick[t].mail)
  /\ seen' = seen \cup {tick[t].mail}
  /\ DropNumberLock(t)
  /\ tick' = [tick EXCEPT ![t] = Reading(@.batch)]
  /\ UNCHANGED <<callVars, changed, cursor, commented, faults>>

TickEnds(t) ==
  /\ tick[t].pc = "reading" /\ tick[t].batch = {}
  /\ tick' = [tick EXCEPT ![t] = NoTick]
  /\ UNCHANGED <<tickets, numberLock, callVars, changed, cursor, seen, commented, faults>>

(* One mail throws, or the process stops: the rest of the batch is lost.   *)
TickDies(t) ==
  /\ tick[t].pc # "idle" /\ faults.deaths < MaxTickDeaths
  /\ tick' = [tick EXCEPT ![t] = NoTick]
  /\ faults' = [faults EXCEPT !.deaths = @ + 1]
  /\ DropNumberLock(t)
  /\ UNCHANGED <<tickets, callVars, changed, cursor, seen, commented>>

IntakeNext ==
  \/ \E c \in Syncs : SyncReads(c)
  \/ \E c \in Callers : CallNumbers(c) \/ CallInserts(c) \/ CallAborts(c)
  \/ \E m \in Messages : MailArrives(m) \/ MailIsListedAgain(m)
  \/ \E t \in Ticks : \/ TickOpens(t) \/ TickFetches(t) \/ TickStores(t) \/ TickReads(t) \/ TickMarks(t)
                      \/ TickNumbers(t) \/ TickInserts(t) \/ TickEnds(t) \/ TickDies(t)

IntakeSpec == IntakeInit /\ [][IntakeNext]_intakeVars

-----------------------------------------------------------------------------
(* Concurrent filings through any of the channels never collide on a       *)
(* ticket number (tickets.ts, nextTicketNumber): the number read under the *)
(* lock is still free when the row is inserted.                            *)
FilingNeverCollides ==
  /\ \A c \in Callers : call[c].pc # "collided"
  /\ \A t \in Ticks : tick[t].pc = "numbered" => ~Collides(tick[t].number)

(* A mail that was filed is never taken up again, and one that became a    *)
(* comment never becomes a ticket, however often Graph lists it and        *)
(* wherever a tick dies (ingestMessage): what came of a mail and what is   *)
(* still under way never outnumber the ticks.  With one tick at a time     *)
(* that is one ticket at most; ticks that overlap can each file the mail,  *)
(* for its marker is read without a lock.  A comment counts once, though   *)
(* it may be added again: it and its marker are separate commits.          *)
Outcomes(m) ==
  Cardinality({row \in tickets : row.from = m}) + (IF m \in commented THEN 1 ELSE 0)
InHand(m) == {t \in Ticks : tick[t].mail = m /\ tick[t].pc \in {"missed", "numbered"}}

TakenUpOnce == \A m \in Messages : Outcomes(m) + Cardinality(InHand(m)) <= Cardinality(Ticks)

(* Two first syncs of one item race to the unique index, and neither is    *)
(* told so: whoever loses updates the winner's ticket                      *)
(* (integration-tickets.ts, isExternalRefConflict).                        *)
SyncNeverRefused ==
  \A c \in Syncs : /\ call[c].pc \notin {"refused", "collided"}
                   /\ call[c].pc = "done" => ItemFiled

(* No filing, through whichever channel, is refused for what another does  *)
(* at the same time: neither for its number nor for its external reference.*)
EveryFilingSucceeds == FilingNeverCollides /\ SyncNeverRefused

(* No filing is refused for another, and no mail is filed more often than  *)
(* there are ticks that overlap.                                           *)
FilingIsExact == EveryFilingSucceeds /\ TakenUpOnce

(* An organization can always file its next ticket: ticket_number is a     *)
(* per-organization sequence (docs/nexus/03-ticketing.md).                 *)
SequenceNeverRunsOut == \A c \in Callers : call[c].pc # "overflowed"
=============================================================================
