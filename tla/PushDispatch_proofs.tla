---- MODULE PushDispatch_proofs ----
(***************************************************************************)
(* The safety of the push dispatch, proved for any number of servers,      *)
(* slots, ticks, requests and failures.                                    *)
(*                                                                         *)
(* Both invariants count promises together with facts: a dispatch past its *)
(* claim counts as a message of its slot, and a server bound to build      *)
(* counts as a session of the backlog.                                     *)
(***************************************************************************)
EXTENDS PushDispatch, FiniteSetTheorems, TLAPS

One(b) == IF b THEN 1 ELSE 0

Places == [pc : Labels, slot : Slots, count : Nat]

\* A dispatch of the slot has passed its claim and may send.
Sending(t, s) == t.pc \in {"lookup", "build", "push"} /\ t.slot = s

\* The server builds a session unless something fails.
Building(t) == t.pc = "build" \/ (t.pc = "claim" /\ t.count < MaxUnfinished)

Senders(s) == {w \in Servers : Sending(tick[w], s)}
Builders   == {w \in Servers : Building(tick[w])}

Claims(s) ==
  sent[s] + Cardinality(Senders(s)) <= One(s \in claims) + unguarded[s]

Room ==
  Backlog + Cardinality(Builders) <= MaxUnfinished - 1 + Cardinality(Servers) + blind + requests

IInv == TypeOK /\ (\A s \in Slots : Claims(s)) /\ Room

(***************************************************************************)
(* Lemmas                                                                  *)
(***************************************************************************)

\* Two sets that agree on all but one element differ in size by that element.
LEMMA OneApart ==
  ASSUME NEW S, NEW T, NEW x, IsFiniteSet(S), IsFiniteSet(T), S \ {x} = T \ {x}
  PROVE  /\ Cardinality(S) \in Nat /\ Cardinality(T) \in Nat
         /\ Cardinality(T) = Cardinality(S) + One(x \in T) - One(x \in S)
<1>1. Cardinality(S) \in Nat /\ Cardinality(T) \in Nat
  BY FS_CardinalityType
<1>2. Cardinality(S \ {x}) = IF x \in S THEN Cardinality(S) - 1 ELSE Cardinality(S)
  BY FS_RemoveElement
<1>3. Cardinality(T \ {x}) = IF x \in T THEN Cardinality(T) - 1 ELSE Cardinality(T)
  BY FS_RemoveElement
<1> QED
  BY <1>1, <1>2, <1>3 DEF One

\* The servers that send or build are counted, and they are at most all.
LEMMA Counted ==
  /\ Cardinality(Servers) \in Nat \ {0}
  /\ \A s : IsFiniteSet(Senders(s)) /\ Cardinality(Senders(s)) \in Nat
  /\ IsFiniteSet(Builders) /\ Cardinality(Builders) \in Nat
  /\ Cardinality(Builders) <= Cardinality(Servers)
<1>1. Cardinality(Servers) \in Nat /\ Cardinality(Servers) # 0
  BY ServersAssumption, FS_CardinalityType, FS_EmptySet
<1>2. \A s : Senders(s) \subseteq Servers
  BY DEF Senders
<1>3. Builders \subseteq Servers
  BY DEF Builders
<1> QED
  BY <1>1, <1>2, <1>3, ServersAssumption, FS_Subset, FS_CardinalityType

\* A step of one server moves that server alone in and out of the counts.
LEMMA Moved ==
  ASSUME TypeOK, NEW w \in Servers, NEW t \in Places, Goto(w, t)
  PROVE  /\ \A s : Cardinality(Senders(s))'
                     = Cardinality(Senders(s)) + One(Sending(t, s)) - One(Sending(tick[w], s))
         /\ Cardinality(Builders)'
              = Cardinality(Builders) + One(Building(t)) - One(Building(tick[w]))
         /\ Cardinality(Builders)' <= Cardinality(Servers)
<1>1. tick' = [tick EXCEPT ![w] = t] /\ tick \in [Servers -> Places]
  BY DEF TypeOK, Goto, Places
<1>2. tick'[w] = t /\ \A v \in Servers \ {w} : tick'[v] = tick[v]
  BY <1>1
<1>3. IsFiniteSet(Builders') /\ Builders' \subseteq Servers
  BY ServersAssumption, FS_Subset DEF Builders
<1>4. Cardinality(Builders')
        = Cardinality(Builders) + One(w \in Builders') - One(w \in Builders)
  <2>1. Builders \ {w} = Builders' \ {w}
    BY <1>2 DEF Builders
  <2> QED
    BY <2>1, <1>3, Counted, OneApart
<1>5. (w \in Builders' <=> Building(t)) /\ (w \in Builders <=> Building(tick[w]))
  BY <1>2 DEF Builders
<1>6. ASSUME NEW s
      PROVE  Cardinality(Senders(s)')
               = Cardinality(Senders(s)) + One(Sending(t, s)) - One(Sending(tick[w], s))
  <2>1. IsFiniteSet(Senders(s)')
    <3>1. Senders(s)' \subseteq Servers
      BY DEF Senders
    <3> QED
      BY <3>1, ServersAssumption, FS_Subset
  <2>2. Senders(s) \ {w} = Senders(s)' \ {w}
    BY <1>2 DEF Senders
  <2>3. Cardinality(Senders(s)')
          = Cardinality(Senders(s)) + One(w \in Senders(s)') - One(w \in Senders(s))
    BY <2>1, <2>2, Counted, OneApart
  <2>4. (w \in Senders(s)' <=> Sending(t, s)) /\ (w \in Senders(s) <=> Sending(tick[w], s))
    BY <1>2 DEF Senders
  <2> QED
    BY <2>3, <2>4 DEF One
<1>7. Cardinality(Builders') <= Cardinality(Servers)
  BY <1>3, ServersAssumption, FS_Subset
<1> QED
  BY <1>4, <1>5, <1>6, <1>7 DEF One

\* After a slot the tick is at no claim of any slot.
LEMMA NextSlotRests ==
  ASSUME NEW s \in Slots
  PROVE  /\ NextSlot(s) \in Places
         /\ ~Building(NextSlot(s))
         /\ \A r : ~Sending(NextSlot(s), r)
BY SlotsAssumption DEF NextSlot, Idle, At, Places, Labels, Slots, Building, Sending

\* A claimed slot goes to the lookup or, below the cap, to the build.
LEMMA ClaimedSends ==
  ASSUME NEW t \in Places, t.pc = "claim"
  PROVE  /\ Claimed(t) \in Places
         /\ Building(Claimed(t)) => Building(t)
         /\ \A r : Sending(Claimed(t), r) <=> r = t.slot
BY CapAssumption DEF Claimed, AtCap, At, Places, Labels, Building, Sending

(***************************************************************************)
(* The steps                                                               *)
(***************************************************************************)

\* What a slot and the backlog have spent beyond what they were given.
Overspent(s) == sent[s] - One(s \in claims) - unguarded[s]
Overfull     == Backlog - blind - requests

\* A server's step keeps the invariant if it spends no more than the place it
\* leaves had set aside, or leaves the backlog below the cap.
LEMMA Accounted ==
  ASSUME IInv, TypeOK', NEW w \in Servers, NEW t \in Places, Goto(w, t),
         \A s \in Slots : Overspent(s)' + One(Sending(t, s))
                             <= Overspent(s) + One(Sending(tick[w], s)),
         \/ Overfull' + One(Building(t)) <= Overfull + One(Building(tick[w]))
         \/ Overfull' <= MaxUnfinished - 1
  PROVE  IInv'
<1>1. /\ {blind, requests, unfinished, orphans} \subseteq Nat
      /\ {blind', requests', unfinished', orphans'} \subseteq Nat
  BY DEF IInv, TypeOK
<1>2. ASSUME NEW s \in Slots PROVE Claims(s)'
  <2>1. {sent[s], unguarded[s]} \subseteq Nat /\ {sent'[s], unguarded'[s]} \subseteq Nat
    BY DEF IInv, TypeOK
  <2>2. Cardinality(Senders(s))'
          = Cardinality(Senders(s)) + One(Sending(t, s)) - One(Sending(tick[w], s))
    BY Moved DEF IInv
  <2>3. Claims(s)
    BY DEF IInv
  <2>4. Overspent(s)' + One(Sending(t, s)) <= Overspent(s) + One(Sending(tick[w], s))
    OBVIOUS
  <2>5. Cardinality(Senders(s)) \in Nat
    BY Counted
  <2> QED
    BY <2>1, <2>2, <2>3, <2>4, <2>5 DEF Claims, Overspent, One
<1>3. Room'
  <2>1. Cardinality(Builders)' = Cardinality(Builders) + One(Building(t)) - One(Building(tick[w]))
        /\ Cardinality(Builders)' <= Cardinality(Servers)
    BY Moved DEF IInv
  <2>2. Room
    BY DEF IInv
  <2>3. {Cardinality(Builders), Cardinality(Servers), MaxUnfinished} \subseteq Nat
    BY Counted, CapAssumption
  <2> QED
    BY <1>1, <2>1, <2>2, <2>3 DEF Room, Overfull, Backlog, One
<1> QED
  BY <1>2, <1>3 DEF IInv

LEMMA InitOK == Init => IInv
<1> SUFFICES ASSUME Init PROVE IInv
  OBVIOUS
<1>1. TypeOK
  BY BoundsAssumption, CapAssumption, SlotsAssumption DEF Init, TypeOK, Idle, Labels, Slots
<1>2. \A w \in Servers : tick[w] = Idle
  BY DEF Init
<1>3. Builders = {} /\ \A s : Senders(s) = {}
  BY <1>2 DEF Builders, Senders, Building, Sending, Idle
<1>4. \A s \in Slots : Claims(s)
  BY <1>3, FS_EmptySet DEF Claims, Init, One
<1>5. Room
  <2>1. Backlog <= MaxUnfinished /\ Backlog \in Nat /\ blind = 0 /\ requests = 0
    BY CapAssumption DEF Init, Backlog
  <2> QED
    BY <2>1, <1>3, FS_EmptySet, Counted, CapAssumption DEF Room
<1> QED
  BY <1>1, <1>4, <1>5 DEF IInv

LEMMA TickOK ==
  ASSUME IInv, NEW w \in Servers, Tick(w)
  PROVE  IInv'
<1> DEFINE t == At("query", 1, 0)
<1>1. t \in Places /\ Goto(w, t) /\ ~Building(t) /\ \A s : ~Sending(t, s)
  BY SlotsAssumption DEF Tick, At, Places, Labels, Slots, Building, Sending
<1>2. TypeOK'
  BY <1>1 DEF IInv, TypeOK, Tick, Goto, Places
<1>3. ~Building(tick[w]) /\ \A s : ~Sending(tick[w], s)
  BY DEF Tick, Building, Sending
<1>4. \A s \in Slots : Overspent(s)' = Overspent(s) /\ Overspent(s) \in Int
  BY DEF Tick, Overspent, One, IInv, TypeOK
<1>5. Overfull' = Overfull /\ Overfull \in Int
  BY DEF Tick, Overfull, Backlog, IInv, TypeOK
<1> HIDE DEF t
<1> QED
  BY <1>1, <1>2, <1>3, <1>4, <1>5, Accounted DEF One

LEMMA QueryOK ==
  ASSUME IInv, NEW w \in Servers, Query(w)
  PROVE  IInv'
<1> DEFINE s == tick[w].slot
<1>1. s \in Slots /\ tick[w].pc = "query"
  BY DEF IInv, TypeOK, Query
<1>2. PICK t \in Places : Goto(w, t) /\ ~Building(t) /\ \A r : ~Sending(t, r)
  <2>1. CASE Goto(w, NextSlot(s))
    BY <1>1, <2>1, NextSlotRests
  <2>2. CASE Goto(w, At("count", s, 0))
    BY <1>1, <2>2 DEF At, Places, Labels, Building, Sending
  <2> QED
    BY <2>1, <2>2 DEF Query
<1>3. TypeOK'
  <2>1. due' \subseteq Slots
    BY <1>1 DEF Query, IInv, TypeOK
  <2> QED
    BY <1>2, <2>1 DEF IInv, TypeOK, Query, Goto, Places
<1>4. ~Building(tick[w]) /\ \A r : ~Sending(tick[w], r)
  BY <1>1 DEF Building, Sending
<1>5. \A r \in Slots : Overspent(r)' = Overspent(r) /\ Overspent(r) \in Int
  BY DEF Query, Overspent, One, IInv, TypeOK
<1>6. Overfull' = Overfull /\ Overfull \in Int
  BY DEF Query, Overfull, Backlog, IInv, TypeOK
<1> QED
  BY <1>2, <1>3, <1>4, <1>5, <1>6, Accounted DEF One

\* Only a count below the cap, or one that failed, makes a builder.
LEMMA CountOK ==
  ASSUME IInv, NEW w \in Servers, Count(w)
  PROVE  IInv'
<1> DEFINE s == tick[w].slot
<1>1. s \in Slots /\ tick[w].pc = "count"
  BY DEF IInv, TypeOK, Count
<1>2. ~Building(tick[w]) /\ \A r : ~Sending(tick[w], r)
  BY <1>1 DEF Building, Sending
<1>3. \A r \in Slots : Overspent(r)' = Overspent(r) /\ Overspent(r) \in Int
  BY DEF Count, Overspent, One, IInv, TypeOK
<1>4. /\ {unfinished, orphans, blind, requests, MaxUnfinished} \subseteq Nat
      /\ Backlog \in Nat /\ Backlog' = Backlog /\ requests' = requests
  BY CapAssumption DEF Count, IInv, TypeOK, Backlog
<1>5. CASE Goto(w, At("claim", s, Backlog)) /\ UNCHANGED <<blind, failures>>
  <2> DEFINE t == At("claim", s, Backlog)
  <2>1. t \in Places /\ Goto(w, t) /\ \A r : ~Sending(t, r)
    BY <1>1, <1>4, <1>5 DEF At, Places, Labels, Sending
  <2>2. Building(t) => Backlog < MaxUnfinished
    BY DEF At, Building
  <2>3. TypeOK'
    BY <2>1, <1>5 DEF IInv, TypeOK, Count, Goto, Places
  <2> HIDE DEF t
  <2>4. \/ Overfull' + One(Building(t)) <= Overfull + One(Building(tick[w]))
        \/ Overfull' <= MaxUnfinished - 1
    BY <1>2, <1>4, <1>5, <2>2 DEF Overfull, One
  <2> QED
    BY <1>2, <1>3, <2>1, <2>3, <2>4, Accounted DEF One
<1>6. CASE Goto(w, At("claim", s, 0)) /\ blind' = blind + 1 /\ Fail
  <2> DEFINE t == At("claim", s, 0)
  <2>1. t \in Places /\ Goto(w, t) /\ \A r : ~Sending(t, r)
    BY <1>1, <1>6 DEF At, Places, Labels, Sending
  <2>2. TypeOK'
    BY <2>1, <1>6 DEF IInv, TypeOK, Count, Goto, Places, Fail
  <2> HIDE DEF t
  <2>3. Overfull' + One(Building(t)) <= Overfull + One(Building(tick[w]))
    BY <1>2, <1>4, <1>6 DEF Overfull, One
  <2> QED
    BY <1>2, <1>3, <2>1, <2>2, <2>3, Accounted DEF One
<1> QED
  BY <1>5, <1>6 DEF Count

\* A dispatch passes the claim on a key of its own or on a failed call.
LEMMA ClaimOK ==
  ASSUME IInv, NEW w \in Servers, Claim(w)
  PROVE  IInv'
<1> DEFINE s == tick[w].slot
<1>1. tick[w] \in Places /\ s \in Slots /\ tick[w].pc = "claim"
  BY DEF IInv, TypeOK, Claim, Places
<1>2. \A r : ~Sending(tick[w], r)
  BY <1>1 DEF Sending
<1>3. Overfull' = Overfull /\ Overfull \in Int
  BY DEF Claim, Overfull, Backlog, IInv, TypeOK
<1>4. {sent, sent'} \subseteq [Slots -> Nat] /\ sent' = sent /\ unguarded \in [Slots -> Nat]
  BY DEF IInv, TypeOK, Claim
<1>5. CASE s \notin claims /\ claims' = claims \cup {s} /\ Goto(w, Claimed(tick[w]))
           /\ UNCHANGED <<unguarded, failures>>
  <2>1. TypeOK'
    BY <1>1, <1>5, ClaimedSends DEF IInv, TypeOK, Claim, Goto, Places
  <2>2. \A r \in Slots : Overspent(r)' + One(Sending(Claimed(tick[w]), r))
                            <= Overspent(r) + One(Sending(tick[w], r))
    BY <1>1, <1>2, <1>4, <1>5, ClaimedSends DEF Overspent, One
  <2> QED
    BY <1>1, <1>3, <1>5, <2>1, <2>2, ClaimedSends, Accounted DEF One
<1>6. CASE s \in claims /\ Goto(w, NextSlot(s)) /\ UNCHANGED <<claims, unguarded, failures>>
  <2>1. TypeOK'
    BY <1>1, <1>6, NextSlotRests DEF IInv, TypeOK, Claim, Goto, Places
  <2>2. \A r \in Slots : Overspent(r)' + One(Sending(NextSlot(s), r))
                            <= Overspent(r) + One(Sending(tick[w], r))
    BY <1>1, <1>2, <1>4, <1>6, NextSlotRests DEF Overspent, One
  <2> QED
    BY <1>1, <1>3, <1>6, <2>1, <2>2, NextSlotRests, Accounted DEF One
<1>7. CASE /\ claims' \in {claims, claims \cup {s}}
           /\ unguarded' = [unguarded EXCEPT ![s] = @ + 1]
           /\ Goto(w, Claimed(tick[w]))
           /\ Fail
  <2>1. TypeOK'
    <3>1. claims' \subseteq Slots /\ unguarded' \in [Slots -> Nat] /\ failures' \in Nat
      BY <1>1, <1>4, <1>7 DEF IInv, TypeOK, Fail
    <3>2. tick' \in [Servers -> Places]
      BY <1>1, <1>7, ClaimedSends DEF IInv, TypeOK, Goto, Places
    <3> QED
      BY <3>1, <3>2 DEF IInv, TypeOK, Claim, Places
  <2>2. \A r \in Slots : unguarded'[r] = IF r = s THEN unguarded[r] + 1 ELSE unguarded[r]
    BY <1>4, <1>7
  <2>3. \A r \in Slots : r \in claims => r \in claims'
    BY <1>7
  <2>4. \A r \in Slots : Overspent(r)' + One(Sending(Claimed(tick[w]), r))
                            <= Overspent(r) + One(Sending(tick[w], r))
    BY <1>1, <1>2, <1>4, <2>2, <2>3, ClaimedSends DEF Overspent, One
  <2> QED
    BY <1>1, <1>3, <1>7, <2>1, <2>4, ClaimedSends, Accounted DEF One
<1> QED
  BY <1>5, <1>6, <1>7 DEF Claim, TryClaim

\* A server turns from reminding to building only with no backlog at all.
LEMMA LookUpOK ==
  ASSUME IInv, NEW w \in Servers, LookUp(w)
  PROVE  IInv'
<1> DEFINE s == tick[w].slot
           t == At(IF Backlog = 0 THEN "build" ELSE "push", s, 0)
<1>1. s \in Slots /\ tick[w].pc = "lookup"
  BY DEF IInv, TypeOK, LookUp
<1>2. /\ t \in Places /\ Goto(w, t)
      /\ \A r : Sending(t, r) <=> Sending(tick[w], r)
      /\ Building(t) => Backlog = 0
  BY <1>1 DEF LookUp, Remind, At, Places, Labels, Sending, Building
<1> HIDE DEF t
<1>3. TypeOK'
  BY <1>2 DEF IInv, TypeOK, LookUp, Goto, Places
<1>4. \A r \in Slots : Overspent(r)' = Overspent(r) /\ Overspent(r) \in Int
  BY DEF LookUp, Overspent, One, IInv, TypeOK
<1>5. \/ Overfull' + One(Building(t)) <= Overfull + One(Building(tick[w]))
      \/ Overfull' <= MaxUnfinished - 1
  <2>1. {unfinished, orphans, blind, requests} \subseteq Nat /\ MaxUnfinished \in Nat \ {0}
        /\ Overfull' = Overfull
    BY CapAssumption DEF IInv, TypeOK, LookUp, Overfull, Backlog
  <2>2. ~Building(tick[w])
    BY <1>1 DEF Building
  <2> QED
    BY <1>2, <2>1, <2>2 DEF Overfull, Backlog, One
<1> QED
  BY <1>2, <1>3, <1>4, <1>5, Accounted DEF One

LEMMA BuildOK ==
  ASSUME IInv, NEW w \in Servers, Build(w)
  PROVE  IInv'
<1> DEFINE s == tick[w].slot
<1>1. s \in Slots /\ tick[w].pc = "build"
  BY DEF IInv, TypeOK, Build
<1>2. Building(tick[w]) /\ \A r : Sending(tick[w], r) <=> r = s
  BY <1>1 DEF Building, Sending
<1>3. \A r \in Slots : Overspent(r)' = Overspent(r) /\ Overspent(r) \in Int
  BY DEF Build, Overspent, One, IInv, TypeOK
<1>4. PICK t \in Places : /\ Goto(w, t)
                          /\ ~Building(t)
                          /\ \A r : Sending(t, r) => r = s
  <2>1. CASE Goto(w, At("push", s, 0))
    BY <1>1, <2>1 DEF At, Places, Labels, Building, Sending
  <2>2. CASE Goto(w, NextSlot(s))
    BY <1>1, <2>2, NextSlotRests
  <2> QED
    BY <2>1, <2>2 DEF Build
<1>5. /\ {unfinished, orphans, blind, requests, failures} \subseteq Nat
      /\ {unfinished', orphans', failures'} \subseteq Nat
      /\ Backlog' <= Backlog + 1
      /\ empty' \subseteq Slots
  BY <1>1 DEF IInv, TypeOK, Build, Backlog, Fail
<1>6. TypeOK'
  BY <1>4, <1>5 DEF IInv, TypeOK, Build, Goto, Places
<1>7. Overfull' + One(Building(t)) <= Overfull + One(Building(tick[w]))
  BY <1>2, <1>4, <1>5 DEF Overfull, Backlog, One, Build
<1> QED
  BY <1>2, <1>3, <1>4, <1>6, <1>7, Accounted DEF One

\* A message leaves the dispatch that had been counted for it.
LEMMA Delivered ==
  ASSUME IInv, NEW w \in Servers, NEW t \in Places, Goto(w, t),
         ~Building(t), \A r : ~Sending(t, r),
         \/ UNCHANGED sent
         \/ tick[w].pc = "push" /\ sent' = [sent EXCEPT ![tick[w].slot] = @ + 1],
         failures' \in Nat,
         UNCHANGED <<claims, unfinished, orphans, due, empty, unguarded, blind, requests, ticks>>
  PROVE  IInv'
<1> DEFINE s == tick[w].slot
<1>1. s \in Slots /\ sent \in [Slots -> Nat] /\ unguarded \in [Slots -> Nat]
  BY DEF IInv, TypeOK
<1>2. sent' \in [Slots -> Nat]
  BY <1>1
<1>3. TypeOK'
  BY <1>2 DEF IInv, TypeOK, Goto, Places
<1>4. ASSUME NEW r \in Slots
      PROVE  Overspent(r)' + One(Sending(t, r)) <= Overspent(r) + One(Sending(tick[w], r))
  <2>1. sent'[r] = sent[r] \/ (sent'[r] = sent[r] + 1 /\ Sending(tick[w], r))
    BY <1>1 DEF Sending
  <2> QED
    BY <1>1, <1>2, <2>1 DEF Overspent, One
<1>5. Overfull' = Overfull /\ Overfull \in Int
  BY DEF Overfull, Backlog, IInv, TypeOK
<1> QED
  BY <1>3, <1>4, <1>5, Accounted DEF One

LEMMA PushOK ==
  ASSUME IInv, NEW w \in Servers, Push(w)
  PROVE  IInv'
<1>1. tick[w].slot \in Slots /\ failures' \in Nat
  BY DEF IInv, TypeOK, Push
<1> QED
  BY <1>1, NextSlotRests, Delivered DEF Push

LEMMA AbortOK ==
  ASSUME IInv, NEW w \in Servers, Abort(w)
  PROVE  IInv'
<1>1. tick[w].slot \in Slots /\ failures' \in Nat
  BY DEF IInv, TypeOK, Abort, Fail
<1>2. PICK t \in {Idle, NextSlot(tick[w].slot)} : Goto(w, t)
  BY DEF Abort, Goto
<1>3. t \in Places /\ ~Building(t) /\ \A r : ~Sending(t, r)
  BY <1>1, NextSlotRests, SlotsAssumption
  DEF Idle, Places, Labels, Slots, Building, Sending
<1> QED
  BY <1>1, <1>2, <1>3, Delivered DEF Abort

\* The steps of Redis and of the user move no server.
LEMMA OutsideOK ==
  ASSUME IInv, (\E s \in Slots : LoseClaim(s)) \/ Finish \/ Request \/ UNCHANGED vars
  PROVE  IInv'
<1>1. tick' = tick /\ sent' = sent
  BY DEF LoseClaim, Finish, Request, vars
<1>2. Builders' = Builders /\ \A s : Senders(s)' = Senders(s)
  BY <1>1 DEF Builders, Senders
<1>3. TypeOK'
  <2>1. CASE \E s \in Slots : LoseClaim(s)
    BY <2>1 DEF IInv, TypeOK, LoseClaim, Fail
  <2>2. CASE Finish \/ Request \/ UNCHANGED vars
    BY <2>2 DEF IInv, TypeOK, Finish, Request, vars
  <2> QED
    BY <2>1, <2>2
<1>4. ASSUME NEW r \in Slots PROVE Claims(r)'
  <2>1. /\ {sent[r], unguarded[r], unguarded'[r], Cardinality(Senders(r))} \subseteq Nat
        /\ Claims(r)
    BY <1>3, Counted DEF IInv, TypeOK
  <2>2. One(r \in claims) + unguarded[r] <= One(r \in claims') + unguarded'[r]
    <3>1. CASE LoseClaim(r)
      BY <2>1, <3>1 DEF LoseClaim, One, IInv, TypeOK
    <3>2. CASE \E s \in Slots \ {r} : LoseClaim(s)
      BY <2>1, <3>2 DEF LoseClaim, One, IInv, TypeOK
    <3>3. CASE Finish \/ Request \/ UNCHANGED vars
      BY <2>1, <3>3 DEF Finish, Request, vars, One
    <3> QED
      BY <3>1, <3>2, <3>3
  <2> QED
    BY <1>1, <1>2, <2>1, <2>2 DEF Claims, One
<1>5. Room'
  <2>1. /\ {unfinished, orphans, blind, requests, MaxUnfinished} \subseteq Nat
        /\ {Cardinality(Builders), Cardinality(Servers)} \subseteq Nat /\ Room
    BY Counted, CapAssumption DEF IInv, TypeOK
  <2>2. Overfull' <= Overfull
    BY <2>1 DEF LoseClaim, Finish, Request, vars, Overfull, Backlog
  <2>3. {unfinished', orphans', blind', requests'} \subseteq Nat
    BY <1>3 DEF TypeOK
  <2> QED
    BY <1>2, <2>1, <2>2, <2>3 DEF Room, Overfull, Backlog
<1> QED
  BY <1>3, <1>4, <1>5 DEF IInv

(***************************************************************************)
(* The theorems                                                            *)
(***************************************************************************)

LEMMA NextOK == IInv /\ [Next]_vars => IInv'
<1> SUFFICES ASSUME IInv, [Next]_vars PROVE IInv'
  OBVIOUS
<1>1. ASSUME NEW w \in Servers, Tick(w) \/ ServerStep(w) \/ Abort(w) PROVE IInv'
  BY <1>1, TickOK, QueryOK, CountOK, ClaimOK, LookUpOK, BuildOK, PushOK, AbortOK DEF ServerStep
<1> QED
  BY <1>1, OutsideOK DEF Next

\* The invariant holds in every behaviour, with any number of servers.
THEOREM PushInvariance == Spec => []IInv
BY InitOK, NextOK, PTL DEF Spec

\* The tick never leaves the day's slots, and every counter is a number.
THEOREM PushTypeCorrect == Spec => []TypeOK
<1>1. IInv => TypeOK
  BY DEF IInv
<1> QED
  BY <1>1, PushInvariance, PTL

\* However many servers tick at once and however often a slot comes due, it
\* sends one message a day and one more for each claim that failed.
THEOREM SentOnce == Spec => []SentOncePerClaim
<1>1. IInv => SentOncePerClaim
  <2> SUFFICES ASSUME IInv, NEW s \in Slots PROVE sent[s] <= 1 + unguarded[s]
    BY DEF SentOncePerClaim
  <2>1. {sent[s], unguarded[s], Cardinality(Senders(s))} \subseteq Nat /\ Claims(s)
    BY Counted DEF IInv, TypeOK
  <2> QED
    BY <2>1 DEF Claims, One
<1> QED
  BY <1>1, PushInvariance, PTL

\* The cap bounds the backlog although every count is stale when it is used:
\* a server overshoots it by one session at most.
THEOREM BacklogFinite == Spec => []BacklogBounded
<1>1. IInv => BacklogBounded
  <2> SUFFICES ASSUME IInv PROVE BacklogBounded
    OBVIOUS
  <2>1. /\ {unfinished, orphans, blind, requests, MaxUnfinished} \subseteq Nat
        /\ {Cardinality(Builders), Cardinality(Servers)} \subseteq Nat /\ Room
    BY Counted, CapAssumption DEF IInv, TypeOK
  <2> QED
    BY <2>1 DEF Room, BacklogBounded, Backlog
<1> QED
  BY <1>1, PushInvariance, PTL
====
