---- MODULE PushDispatch ----
(***************************************************************************)
(* The scheduled push of sessions to one user during one day.              *)
(*                                                                         *)
(* Every half hour each running server walks through the slots (morning    *)
(* study, morning quiz, ...), finds the users whose slot is due, counts    *)
(* their unfinished sessions and hands them to a pool of workers.  A       *)
(* worker claims the slot for the day with a Redis SET NX, then builds and *)
(* pushes a session, or reminds the user of an old one when three are      *)
(* unfinished.  A step is one call.  Users do not interfere, so the pool   *)
(* is seen from one of them; a server handles a user's slots in turn.      *)
(*                                                                         *)
(* Left out: time zones (a slot may be due at any tick, and again after    *)
(* the user changed the settings), the rate limiter's delay, audio.        *)
(***************************************************************************)
EXTENDS Integers, FiniteSets

CONSTANTS
  Servers,         \* processes that run the scheduler
  SlotCount,       \* slots of a day, in the order of tick
  MaxUnfinished,   \* maxUnfinishedSessions
  MaxTicks,        \* bound: ticks of the day
  MaxRequests,     \* bound: sessions the user asks for
  MaxFailures      \* bound: failed steps, crashes, lost keys

Slots == 1 .. SlotCount

ASSUME ServersAssumption == IsFiniteSet(Servers) /\ Servers # {}
ASSUME SlotsAssumption == SlotCount \in Nat \ {0}
ASSUME CapAssumption == MaxUnfinished \in Nat \ {0}
ASSUME BoundsAssumption == {MaxTicks, MaxRequests, MaxFailures} \subseteq Nat

VARIABLES
  tick,        \* where each server is in its tick, and the count it read
  claims,      \* Redis: the slots claimed today
  unfinished,  \* PostgreSQL: pending and in-progress sessions with their items
  orphans,     \* PostgreSQL: pending quizzes whose questions were never stored
  sent,        \* Telegram: messages delivered, per slot
  due,         \* history: slots the user was found for
  empty,       \* history: slots there was no content for
  unguarded,   \* history: per slot, claims that failed or got lost
  blind,       \* history: counts that failed and were taken as zero
  requests, ticks, failures

vars == <<tick, claims, unfinished, orphans, sent, due, empty, unguarded, blind, requests,
          ticks, failures>>

Labels == {"idle", "query", "count", "claim", "lookup", "build", "push"}

Idle           == [pc |-> "idle", slot |-> 1, count |-> 0]
At(pc, s, c)   == [pc |-> pc, slot |-> s, count |-> c]
Goto(w, t)     == tick' = [tick EXCEPT ![w] = t]
Backlog        == unfinished + orphans

\* The tick goes on with the next slot, or ends.
NextSlot(s) == IF s = SlotCount THEN Idle ELSE At("query", s + 1, 0)

AboveCap(count) == count > MaxUnfinished

AtCap(count) == count >= MaxUnfinished

Fail == failures < MaxFailures /\ failures' = failures + 1

Init ==
  /\ tick = [w \in Servers |-> Idle]
  /\ claims = {}
  /\ unfinished \in 0 .. MaxUnfinished
  /\ orphans = 0
  /\ sent = [s \in Slots |-> 0]
  /\ due = {}
  /\ empty = {}
  /\ unguarded = [s \in Slots |-> 0]
  /\ blind = 0
  /\ requests = 0
  /\ ticks = 0
  /\ failures = 0

(***************************************************************************)
(* The tick                                                                *)
(***************************************************************************)

Tick(w) ==
  /\ tick[w].pc = "idle"
  /\ ticks < MaxTicks
  /\ ticks' = ticks + 1
  /\ Goto(w, At("query", 1, 0))
  /\ UNCHANGED <<claims, unfinished, orphans, sent, due, empty, unguarded, blind, requests, failures>>

\* GetUsersBySlot finds the user or not; its failure skips the slot too.
Query(w) ==
  /\ tick[w].pc = "query"
  /\ LET s == tick[w].slot IN
       \/ Goto(w, At("count", s, 0)) /\ due' = due \cup {s}
       \/ Goto(w, NextSlot(s)) /\ UNCHANGED due
  /\ UNCHANGED <<claims, unfinished, orphans, sent, empty, unguarded, blind, requests, ticks, failures>>

\* CountUnfinishedBatch; when it fails every user counts as having none.
Count(w) ==
  /\ tick[w].pc = "count"
  /\ LET s == tick[w].slot IN
       \/ Goto(w, At("claim", s, Backlog)) /\ UNCHANGED <<blind, failures>>
       \/ Goto(w, At("claim", s, 0)) /\ blind' = blind + 1 /\ Fail
  /\ UNCHANGED <<claims, unfinished, orphans, sent, due, empty, unguarded, requests, ticks>>

(***************************************************************************)
(* dispatchUser                                                            *)
(***************************************************************************)

\* The count decides, however old it is by now.
Claimed(t) == IF AtCap(t.count) THEN At("lookup", t.slot, t.count) ELSE At("build", t.slot, 0)

TryClaimWithoutNX(w) ==
  /\ Goto(w, Claimed(tick[w]))
  /\ claims' = claims \cup {tick[w].slot}
  /\ UNCHANGED <<unguarded, failures>>

\* SET NX: acquired, or taken before, or the call fails, with or without
\* effect; dispatchUser then goes on as if acquired.
TryClaim(w) ==
  LET s == tick[w].slot IN
  \/ s \notin claims /\ claims' = claims \cup {s} /\ Goto(w, Claimed(tick[w]))
     /\ UNCHANGED <<unguarded, failures>>
  \/ s \in claims /\ Goto(w, NextSlot(s)) /\ UNCHANGED <<claims, unguarded, failures>>
  \/ /\ claims' \in {claims, claims \cup {s}}
     /\ unguarded' = [unguarded EXCEPT ![s] = @ + 1]
     /\ Goto(w, Claimed(tick[w]))
     /\ Fail

Claim(w) ==
  /\ tick[w].pc = "claim"
  /\ TryClaim(w)
  /\ UNCHANGED <<unfinished, orphans, sent, due, empty, blind, requests, ticks>>

NoneLeftIsReminded(w) == Goto(w, IF Backlog = 0 THEN NextSlot(tick[w].slot)
                                               ELSE At("push", tick[w].slot, 0))

\* OldestUnfinished: with nothing left to remind of, a session is built.
Remind(w) == Goto(w, At(IF Backlog = 0 THEN "build" ELSE "push", tick[w].slot, 0))

LookUp(w) ==
  /\ tick[w].pc = "lookup"
  /\ Remind(w)
  /\ UNCHANGED <<claims, unfinished, orphans, sent, due, empty, unguarded, blind, requests, ticks, failures>>

\* BuildForSlot: a session, or no content.  A quiz and its questions are two
\* statements without a transaction, and the second may fail.
Build(w) ==
  /\ tick[w].pc = "build"
  /\ LET s == tick[w].slot IN
       \/ Goto(w, At("push", s, 0)) /\ unfinished' = unfinished + 1
          /\ UNCHANGED <<orphans, empty, failures>>
       \/ Goto(w, NextSlot(s)) /\ empty' = empty \cup {s}
          /\ UNCHANGED <<unfinished, orphans, failures>>
       \/ Goto(w, NextSlot(s)) /\ orphans' = orphans + 1 /\ Fail
          /\ UNCHANGED <<unfinished, empty>>
  /\ UNCHANGED <<claims, sent, due, unguarded, blind, requests, ticks>>

Push(w) ==
  /\ tick[w].pc = "push"
  /\ LET s == tick[w].slot IN
       /\ sent' = [sent EXCEPT ![s] = @ + 1]
       /\ Goto(w, NextSlot(s))
  /\ UNCHANGED <<claims, unfinished, orphans, due, empty, unguarded, blind, requests, ticks, failures>>

(***************************************************************************)
(* Failures and the user                                                   *)
(***************************************************************************)

\* A call of the dispatch fails (lookup, build, push), the tick's ten minutes
\* are over, or the server dies; the claim stays.  A push whose answer is lost
\* has delivered.
Abort(w) ==
  /\ tick[w].pc # "idle"
  /\ Fail
  /\ tick' \in {[tick EXCEPT ![w] = t] : t \in {Idle, NextSlot(tick[w].slot)}}
  /\ \/ UNCHANGED sent
     \/ tick[w].pc = "push" /\ sent' = [sent EXCEPT ![tick[w].slot] = @ + 1]
  /\ UNCHANGED <<claims, unfinished, orphans, due, empty, unguarded, blind, requests, ticks>>

\* Redis loses the key before the day is over.
LoseClaim(s) ==
  /\ s \in claims
  /\ claims' = claims \ {s}
  /\ unguarded' = [unguarded EXCEPT ![s] = @ + 1]
  /\ Fail
  /\ UNCHANGED <<tick, unfinished, orphans, sent, due, empty, blind, requests, ticks>>

\* The user completes a session; one without questions cannot be started.
Finish ==
  /\ unfinished > 0
  /\ unfinished' = unfinished - 1
  /\ UNCHANGED <<tick, claims, orphans, sent, due, empty, unguarded, blind, requests, ticks, failures>>

\* /study, /test and the review menu build without looking at the backlog.
Request ==
  /\ requests < MaxRequests
  /\ requests' = requests + 1
  /\ unfinished' = unfinished + 1
  /\ UNCHANGED <<tick, claims, orphans, sent, due, empty, unguarded, blind, ticks, failures>>

ServerStep(w) == Query(w) \/ Count(w) \/ Claim(w) \/ LookUp(w) \/ Build(w) \/ Push(w)

Next ==
  \/ \E w \in Servers : Tick(w) \/ ServerStep(w) \/ Abort(w)
  \/ \E s \in Slots : LoseClaim(s)
  \/ Finish \/ Request

Spec == Init /\ [][Next]_vars

\* A tick that has begun runs on.
FairSpec == Spec /\ \A w \in Servers : WF_vars(ServerStep(w))

(***************************************************************************)
(* Properties                                                              *)
(***************************************************************************)

\* Every variable holds what the keys, columns and locals it stands for hold.
TypeOK ==
  /\ tick \in [Servers -> [pc : Labels, slot : Slots, count : Nat]]
  /\ claims \cup due \cup empty \subseteq Slots
  /\ {unfinished, orphans, blind, requests, ticks, failures} \subseteq Nat
  /\ sent \in [Slots -> Nat]
  /\ unguarded \in [Slots -> Nat]

\* However many servers tick at once, however often a slot comes due: a slot
\* sends one message a day, and one more for each time its claim failed.
SentOncePerClaim == \A s \in Slots : sent[s] <= 1 + unguarded[s]

\* "The backlog is kept finite" (ADR-045): counts go stale before they are
\* used, but each server can overshoot the cap by one session at most; only
\* the user's requests and failed counts add to that.
BacklogBounded ==
  Backlog <= MaxUnfinished - 1 + Cardinality(Servers) + blind + requests

\* A slot the user was found for gets its message, unless there is no content
\* or something failed: no claim, race or reminder swallows it.
DueSlotAnswered ==
  \A s \in Slots : s \in due ~> sent[s] > 0 \/ s \in empty \/ failures > 0
====
