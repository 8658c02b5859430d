--------------------------- MODULE FfiHandlesProofs ---------------------------
(***************************************************************************)
(* Proofs about FfiHandles, for any number of connections of clients and   *)
(* servers, whatever stands in front of their states: nothing is lost, and *)
(* as long as the calls let the states live, every wrapper owns its object *)
(* alone.                                                                  *)
(***************************************************************************)
EXTENDS FfiHandles, TLAPS

-----------------------------------------------------------------------------
(* The memory and the wrappers.                                            *)

Passing == {"message", "answer", "buffer"}

\* A wrapper's object is what the program put there; of a state, a call may
\* have left no more than the place (ArcRoundTrip).
Remains(s) == IF s = "state" THEN {"state", "dropped"} ELSE Holds[s]

LEMMA SlotsAre ==
  /\ Slots = LongLived \cup Passing
  /\ \A s \in LongLived : s \notin Passing
  /\ \A s \in Slots : "free" \notin Remains(s) /\ Holds[s] \subseteq Remains(s)
  /\ \A s \in Slots : Holds[s] \subseteq Objects
<1>1. Slots = {"state", "encoder", "decoder", "setup", "message", "answer", "buffer"}
  BY DEF Slots, Holds
<1>2. /\ Holds["state"] = {"state"} /\ Holds["encoder"] = {"encoder"}
      /\ Holds["decoder"] = {"decoder"} /\ Holds["setup"] = {"SetupConnection"}
      /\ Holds["message"] = MessageKinds /\ Holds["buffer"] = {"buffer"}
      /\ Holds["answer"] = {"SetupConnectionSuccess"}
  BY DEF Holds
<1>3. \A s \in Slots : "free" \notin Holds[s] /\ Holds[s] \subseteq Objects
  <2> DEFINE Kinds == {{"state"}, {"encoder"}, {"decoder"}, {"SetupConnection"},
                       {"SetupConnectionSuccess"}, {"buffer"}, MessageKinds}
  <2>1. \A K \in Kinds : "free" \notin K /\ K \subseteq Objects
    BY DEF Objects, MessageKinds
  <2>2. \A s \in Slots : Holds[s] \in Kinds
    BY <1>1, <1>2
  <2> QED BY <2>1, <2>2
<1>4. \A s \in Slots : "free" \notin Remains(s) /\ Holds[s] \subseteq Remains(s)
  BY <1>2, <1>3 DEF Remains
<1> QED BY <1>1, <1>3, <1>4 DEF LongLived, Passing

Heaps    == [Cells -> Objects \cup {"free", "dropped"}]
Pointers == [Goroutines -> [Slots -> Cells \cup {Nil}]]

\* What the wrappers own, and that nothing else is in use, of any memory and
\* any pointers.
Own(h, p) ==
  /\ \A g \in Goroutines, s \in Slots : p[g][s] # Nil =>
       /\ h[p[g][s]] \in Remains(s)
       /\ \A k \in Goroutines, t \in Slots : p[k][t] = p[g][s] => g = k /\ s = t
  /\ \A c \in Cells : h[c] # "free" => \E g \in Goroutines, s \in Slots : p[g][s] = c

LEMMA NilIsNoCell == Nil \notin Cells
  BY DEF Nil, Cells

LEMMA FreshIsFree ==
  ASSUME HasMemory
  PROVE  Fresh \in Cells /\ heap[Fresh] = "free"
<1>1. \E c \in Cells : heap[c] = "free"
  BY DEF HasMemory
<1> QED BY <1>1 DEF Fresh

Cleared(g, slots) == [ptr EXCEPT ![g] = [s \in Slots |-> IF s \in slots THEN Nil ELSE @[s]]]

LEMMA AllocOwns ==
  ASSUME heap \in Heaps, ptr \in Pointers, Own(heap, ptr), HasMemory,
         NEW g \in Goroutines, NEW slot \in Slots, ptr[g][slot] = Nil,
         NEW object \in Holds[slot]
  PROVE  /\ [heap EXCEPT ![Fresh] = object] \in Heaps
         /\ [ptr EXCEPT ![g][slot] = Fresh] \in Pointers
         /\ Own([heap EXCEPT ![Fresh] = object], [ptr EXCEPT ![g][slot] = Fresh])
<1> DEFINE h == [heap EXCEPT ![Fresh] = object]
           p == [ptr EXCEPT ![g][slot] = Fresh]
<1>1. Fresh \in Cells /\ heap[Fresh] = "free"
  BY FreshIsFree
<1>2. object \in Objects /\ object # "free"
  BY SlotsAre
<1>3. h \in Heaps
  BY <1>1, <1>2 DEF Heaps
<1>4. p \in Pointers
  BY <1>1 DEF Pointers
<1>5. \A k \in Goroutines, t \in Slots : ptr[k][t] # Fresh
  BY <1>1, SlotsAre, NilIsNoCell DEF Own
<1>6. \A k \in Goroutines, t \in Slots :
        p[k][t] = IF k = g /\ t = slot THEN Fresh ELSE ptr[k][t]
  BY DEF Pointers
<1>7. \A c \in Cells : h[c] = IF c = Fresh THEN object ELSE heap[c]
  BY DEF Heaps
<1>8. \A k \in Goroutines, t \in Slots : ptr[k][t] # Nil => ptr[k][t] \in Cells
  BY DEF Pointers
<1>9. p[g][slot] = Fresh /\ \A c \in Cells : c # Fresh => h[c] = heap[c]
  BY <1>6, <1>7
<1> HIDE DEF h, p
<1>10. ASSUME NEW k \in Goroutines, NEW s \in Slots, p[k][s] # Nil
       PROVE  /\ h[p[k][s]] \in Remains(s)
              /\ \A j \in Goroutines, t \in Slots : p[j][t] = p[k][s] => k = j /\ s = t
  <2>1. CASE k = g /\ s = slot
    BY <2>1, <1>1, <1>5, <1>6, <1>7, SlotsAre
  <2>2. CASE ~(k = g /\ s = slot)
    BY <2>2, <1>10, <1>1, <1>5, <1>6, <1>7, <1>8 DEF Own
  <2> QED BY <2>1, <2>2
<1>11. ASSUME NEW c \in Cells, h[c] # "free"
       PROVE  \E k \in Goroutines, s \in Slots : p[k][s] = c
  <2>1. CASE c = Fresh
    BY <2>1, <1>9
  <2>2. CASE c # Fresh
    <3>1. PICK k \in Goroutines, s \in Slots : ptr[k][s] = c
      BY <2>2, <1>9, <1>11 DEF Own
    <3>2. ~(k = g /\ s = slot)
      BY <3>1, NilIsNoCell
    <3> QED BY <3>1, <3>2, <1>6
  <2> QED BY <2>1, <2>2
<1>12. Own(h, p)
  BY <1>10, <1>11 DEF Own
<1> QED BY <1>3, <1>4, <1>12 DEF h, p

LEMMA FreeOwns ==
  ASSUME heap \in Heaps, ptr \in Pointers, Own(heap, ptr),
         NEW g \in Goroutines, NEW slots \in SUBSET Slots
  PROVE  /\ Released(g, slots) \in Heaps
         /\ Cleared(g, slots) \in Pointers
         /\ Own(Released(g, slots), Cleared(g, slots))
         /\ \A s \in Slots : Cleared(g, slots)[g][s] = IF s \in slots THEN Nil ELSE ptr[g][s]
         /\ \A k \in Goroutines : k # g => Cleared(g, slots)[k] = ptr[k]
<1> DEFINE h == Released(g, slots)
           p == Cleared(g, slots)
<1>1. h \in Heaps
  BY DEF Released, Heaps
<1>2. p \in Pointers
  BY DEF Cleared, Pointers
<1>3. \A k \in Goroutines, t \in Slots :
        p[k][t] = IF k = g /\ t \in slots THEN Nil ELSE ptr[k][t]
  BY DEF Cleared, Pointers
<1>4. \A k \in Goroutines : k # g => p[k] = ptr[k]
  BY DEF Cleared, Pointers
<1>5. \A c \in Cells :
        h[c] = IF \E s \in slots : ptr[g][s] = c THEN "free" ELSE heap[c]
  BY DEF Released
<1>6. \A k \in Goroutines, t \in Slots : ptr[k][t] # Nil => ptr[k][t] \in Cells
  BY DEF Pointers
<1> HIDE DEF h, p
<1>7. ASSUME NEW k \in Goroutines, NEW s \in Slots, p[k][s] # Nil
      PROVE  /\ h[p[k][s]] \in Remains(s)
             /\ \A j \in Goroutines, t \in Slots : p[j][t] = p[k][s] => k = j /\ s = t
  <2>1. p[k][s] = ptr[k][s] /\ ~(k = g /\ s \in slots) /\ ptr[k][s] \in Cells
    BY <1>7, <1>3, <1>6
  <2>2. ~ \E t \in slots : ptr[g][t] = ptr[k][s]
    BY <2>1, <1>7 DEF Own
  <2>3. h[p[k][s]] = heap[ptr[k][s]]
    BY <2>1, <2>2, <1>5
  <2>4. \A j \in Goroutines, t \in Slots : p[j][t] = p[k][s] => ptr[j][t] = ptr[k][s]
    BY <2>1, <1>3, <1>7
  <2> QED BY <2>1, <2>3, <2>4, <1>7 DEF Own
<1>8. ASSUME NEW c \in Cells, h[c] # "free"
      PROVE  \E k \in Goroutines, s \in Slots : p[k][s] = c
  <2>1. heap[c] # "free" /\ ~ \E s \in slots : ptr[g][s] = c
    BY <1>8, <1>5
  <2>2. PICK k \in Goroutines, s \in Slots : ptr[k][s] = c
    BY <2>1 DEF Own
  <2> QED BY <2>1, <2>2, <1>3
<1>9. Own(h, p)
  BY <1>7, <1>8 DEF Own
<1> QED BY <1>1, <1>2, <1>3, <1>4, <1>9 DEF h, p

\* The Arc of a call drops at most the state it was given.
LEMMA ArcOwns ==
  ASSUME NEW h \in Heaps, NEW p \in Pointers, Own(h, p), NEW g \in Goroutines,
         p[g]["state"] = ptr[g]["state"], p[g]["state"] \in Cells
  PROVE  ArcRoundTrip(g, h) \in Heaps /\ Own(ArcRoundTrip(g, h), p)
<1> DEFINE a == ArcRoundTrip(g, h)
           c == p[g]["state"]
<1>1. a \in Heaps
  BY DEF ArcRoundTrip, Heaps
<1>2. /\ \A d \in Cells : d # c => a[d] = h[d]
      /\ a[c] \in {h[c], "dropped"}
  BY DEF ArcRoundTrip, Heaps
<1>3. "state" \in Slots /\ c # Nil
  BY SlotsAre, NilIsNoCell DEF LongLived
<1>4. h[c] \in Remains("state") /\ a[c] \in Remains("state")
  BY <1>2, <1>3 DEF Own, Remains
<1>5. \A k \in Goroutines, s \in Slots : p[k][s] # Nil => p[k][s] \in Cells
  BY DEF Pointers
<1> HIDE DEF a
<1>6. ASSUME NEW k \in Goroutines, NEW s \in Slots, p[k][s] # Nil
      PROVE  /\ a[p[k][s]] \in Remains(s)
             /\ \A j \in Goroutines, t \in Slots : p[j][t] = p[k][s] => k = j /\ s = t
  <2>1. CASE p[k][s] = c
    BY <2>1, <1>3, <1>4, <1>6 DEF Own
  <2>2. CASE p[k][s] # c
    BY <2>2, <1>2, <1>5, <1>6 DEF Own
  <2> QED BY <2>1, <2>2
<1>7. ASSUME NEW d \in Cells, a[d] # "free"
      PROVE  \E k \in Goroutines, s \in Slots : p[k][s] = d
  <2>1. CASE d = c
    BY <2>1, <1>3
  <2>2. CASE d # c
    BY <2>2, <1>2, <1>7 DEF Own
  <2> QED BY <2>1, <2>2
<1>8. Own(a, p)
  BY <1>6, <1>7 DEF Own
<1> QED BY <1>1, <1>8 DEF a

-----------------------------------------------------------------------------
(* The deferred calls.                                                     *)

Calls(d, held) ==
  /\ d \in Seq(LongLived)
  /\ ToSet(d) = held
  /\ IsInjective(d)

LEMMA DeferCalls ==
  ASSUME NEW d, NEW held, Calls(d, held), NEW slot \in LongLived, slot \notin held
  PROVE  Calls(d \o <<slot>>, held \cup {slot})
<1> DEFINE e == d \o <<slot>>
<1>1. d \in Seq(LongLived) /\ Len(d) \in Nat /\ DOMAIN d = 1 .. Len(d)
  BY DEF Calls
<1>2. e \in Seq(LongLived) /\ Len(e) = Len(d) + 1 /\ DOMAIN e = 1 .. Len(d) + 1
  BY <1>1
<1>3. \A i \in 1 .. Len(d) : e[i] = d[i]
  BY <1>1
<1>4. e[Len(d) + 1] = slot
  BY <1>1
<1>5. ToSet(e) = held \cup {slot}
  <2>1. \A i \in DOMAIN e : i \in 1 .. Len(d) \/ i = Len(d) + 1
    BY <1>1, <1>2
  <2>2. \A i \in 1 .. Len(d) : i \in DOMAIN e
    BY <1>1, <1>2
  <2>3. Len(d) + 1 \in DOMAIN e
    BY <1>1, <1>2
  <2>4. held = {d[i] : i \in 1 .. Len(d)}
    BY <1>1 DEF Calls, ToSet
  <2> HIDE DEF e
  <2> QED BY <2>1, <2>2, <2>3, <2>4, <1>3, <1>4 DEF ToSet
<1>6. IsInjective(e)
  <2>1. \A i \in 1 .. Len(d) : d[i] # slot
    BY <1>1 DEF Calls, ToSet
  <2>2. \A i, j \in 1 .. Len(d) : d[i] = d[j] => i = j
    BY <1>1 DEF Calls, IsInjective
  <2>3. \A i \in DOMAIN e : i \in 1 .. Len(d) \/ i = Len(d) + 1
    BY <1>1, <1>2
  <2> HIDE DEF e
  <2> QED BY <2>1, <2>2, <2>3, <1>3, <1>4 DEF IsInjective
<1> QED BY <1>2, <1>5, <1>6 DEF Calls

LEMMA ReturnCalls ==
  ASSUME NEW d, NEW held, Calls(d, held), d # <<>>
  PROVE  Last(d) \in held /\ Calls(Front(d), held \ {Last(d)})
<1> DEFINE e == Front(d)
<1>1. d \in Seq(LongLived) /\ Len(d) \in Nat \ {0} /\ DOMAIN d = 1 .. Len(d)
  BY DEF Calls
<1>2. e \in Seq(LongLived) /\ DOMAIN e = 1 .. Len(d) - 1 /\ \A i \in 1 .. Len(d) - 1 : e[i] = d[i]
  BY <1>1 DEF Front
<1>3. Last(d) = d[Len(d)] /\ Len(d) \in DOMAIN d
  BY <1>1 DEF Last
<1>4. \A i, j \in DOMAIN d : d[i] = d[j] => i = j
  BY DEF Calls, IsInjective
<1>5. held = {d[i] : i \in DOMAIN d}
  BY DEF Calls, ToSet
<1>6. \A i \in DOMAIN d : i # Len(d) <=> i \in DOMAIN e
  BY <1>1, <1>2
<1>7. \A i \in DOMAIN e : i \in DOMAIN d /\ e[i] = d[i]
  BY <1>1, <1>2
<1> HIDE DEF e
<1>8. ToSet(e) = held \ {Last(d)}
  <2>1. ASSUME NEW x \in ToSet(e)
        PROVE  x \in held /\ x # Last(d)
    <3>1. PICK i \in DOMAIN e : x = e[i]
      BY DEF ToSet
    <3> QED BY <3>1, <1>3, <1>4, <1>5, <1>6, <1>7
  <2>2. ASSUME NEW x \in held, x # Last(d)
        PROVE  x \in ToSet(e)
    <3>1. PICK i \in DOMAIN d : x = d[i]
      BY <1>5
    <3> QED BY <3>1, <2>2, <1>3, <1>6, <1>7 DEF ToSet
  <2> QED BY <2>1, <2>2
<1>9. IsInjective(e)
  BY <1>4, <1>7 DEF IsInjective
<1> QED BY <1>2, <1>3, <1>5, <1>8, <1>9 DEF Calls, e

-----------------------------------------------------------------------------
(* The inductive invariant.                                                *)

\* The wrappers that pass by, where the program has them.
Transient(label) ==
  CASE label \in {"greeting", "written"} -> {"buffer"}
    [] label = "handle"                  -> {"message"}
    [] label = "answer"                  -> {"message", "answer"}
    [] label = "copied"                  -> {"buffer", "answer", "message"}
    [] OTHER                             -> {}

\* The labels where a goroutine need not have its state, and those where the
\* client has not made its message.
Idle  == {"create", "return", "done"}
Early == {"create", "greet", "greeting", "finish", "open", "compose"}

Placed(g) ==
  /\ pc[g] \in Labels
  /\ \A s \in Passing : ptr[g][s] # Nil => s \in Transient(pc[g])
  /\ pc[g] \in {"create", "done"} => deferred[g] = <<>>
  /\ pc[g] \notin Idle => ptr[g]["state"] # Nil
  /\ pc[g] \in Early => ptr[g]["setup"] = Nil

Fronts == [Cells -> {"zero", "other"}]

Held(g) == {s \in LongLived : ptr[g][s] # Nil}

IInv ==
  /\ heap \in Heaps
  /\ before \in Fronts
  /\ ptr \in Pointers
  /\ Own(heap, ptr)
  /\ pc = [g \in Goroutines |-> pc[g]]
  /\ deferred = [g \in Goroutines |-> deferred[g]]
  /\ \A g \in Goroutines : Placed(g) /\ Calls(deferred[g], Held(g))

\* What a step of one goroutine must show of itself.
LEMMA StepKeeps ==
  ASSUME IInv, NEW g \in Goroutines,
         heap' \in Heaps, before' \in Fronts, ptr' \in Pointers, Own(heap', ptr'),
         pc' = [pc EXCEPT ![g] = pc'[g]],
         deferred' = [deferred EXCEPT ![g] = deferred'[g]],
         \A k \in Goroutines : k # g => ptr'[k] = ptr[k],
         Placed(g)', Calls(deferred'[g], Held(g)')
  PROVE  IInv'
<1>1. pc' = [k \in Goroutines |-> pc'[k]] /\ deferred' = [k \in Goroutines |-> deferred'[k]]
  BY DEF IInv
<1>2. \A k \in Goroutines : k # g => pc'[k] = pc[k] /\ deferred'[k] = deferred[k]
  BY DEF IInv
<1>3. ASSUME NEW k \in Goroutines
      PROVE  Placed(k)' /\ Calls(deferred[k], Held(k))'
  <2>1. CASE k = g
    BY <2>1
  <2>2. CASE k # g
    <3>1. pc'[k] = pc[k] /\ deferred'[k] = deferred[k] /\ ptr'[k] = ptr[k]
      BY <2>2, <1>2
    <3>2. Held(k)' = Held(k)
      BY <3>1 DEF Held
    <3>3. Placed(k) /\ Calls(deferred[k], Held(k))
      BY DEF IInv
    <3>4. Placed(k)'
      BY <3>1, <3>3 DEF Placed
    <3> QED BY <3>1, <3>2, <3>3, <3>4
  <2> QED BY <2>1, <2>2
<1> QED BY <1>1, <1>3 DEF IInv

-----------------------------------------------------------------------------
(* What the steps have in common.                                          *)

\* A goroutine that is not idle has a state.
LEMMA HasState ==
  ASSUME IInv, NEW g \in Goroutines, pc[g] \notin Idle
  PROVE  ptr[g]["state"] \in Cells
BY SlotsAre DEF IInv, Placed, Pointers, LongLived

\* The program moves on and touches no wrapper, but may lend its state.
LEMMA MoveKeeps ==
  ASSUME IInv, NEW g \in Goroutines, NEW label \in Labels,
         Goto(g, label), UNCHANGED <<before, ptr, deferred>>,
         heap' = heap \/ (heap' = ArcRoundTrip(g, heap) /\ pc[g] \notin Idle),
         Transient(pc[g]) \subseteq Transient(label),
         label # "create", label = "done" => deferred[g] = <<>>,
         label \in Idle \/ pc[g] \notin Idle, label \in Early => pc[g] \in Early
  PROVE  IInv'
<1>1. pc'[g] = label /\ pc' = [pc EXCEPT ![g] = pc'[g]]
  BY DEF Goto, IInv
<1>2. deferred' = [deferred EXCEPT ![g] = deferred'[g]]
  BY DEF IInv
<1>3. Placed(g) /\ Calls(deferred[g], Held(g))
  BY DEF IInv
<1>4. Placed(g)'
  BY <1>1, <1>3 DEF Placed
<1>5. Calls(deferred'[g], Held(g)')
  BY <1>3 DEF Held
<1>6. heap' \in Heaps /\ Own(heap', ptr)
  BY HasState, ArcOwns DEF IInv
<1>7. ptr' \in Pointers /\ Own(heap', ptr') /\ before' \in Fronts
  BY <1>6 DEF IInv
<1> QED BY <1>1, <1>2, <1>4, <1>5, <1>6, <1>7, StepKeeps

\* A wrapper gets a new object.
LEMMA AllocStep ==
  ASSUME IInv, NEW g \in Goroutines, NEW slot \in Slots, ptr[g][slot] = Nil,
         NEW object \in Holds[slot], HasMemory,
         \/ heap' = [heap EXCEPT ![Fresh] = object]
         \/ /\ heap' = ArcRoundTrip(g, [heap EXCEPT ![Fresh] = object])
            /\ pc[g] \notin Idle /\ slot # "state",
         ptr' = [ptr EXCEPT ![g][slot] = Fresh]
  PROVE  /\ heap' \in Heaps /\ ptr' \in Pointers /\ Own(heap', ptr')
         /\ ptr'[g][slot] # Nil
         /\ \A s \in Slots : s # slot => ptr'[g][s] = ptr[g][s]
         /\ \A k \in Goroutines : k # g => ptr'[k] = ptr[k]
<1> DEFINE h == [heap EXCEPT ![Fresh] = object]
<1>1. h \in Heaps /\ ptr' \in Pointers /\ Own(h, ptr')
  BY AllocOwns DEF IInv
<1>2. Fresh # Nil
  BY FreshIsFree, NilIsNoCell
<1> HIDE DEF h
<1>3. heap' \in Heaps /\ Own(heap', ptr')
  <2>1. CASE heap' = h
    BY <2>1, <1>1
  <2>2. CASE heap' = ArcRoundTrip(g, h) /\ pc[g] \notin Idle /\ slot # "state"
    <3>1. ptr[g]["state"] \in Cells
      BY <2>2, HasState
    <3>2. ptr'[g]["state"] = ptr[g]["state"]
      BY <2>2, SlotsAre DEF IInv, Pointers, LongLived
    <3> QED BY <2>2, <3>1, <3>2, <1>1, ArcOwns
  <2> QED BY <2>1, <2>2 DEF h
<1> QED BY <1>1, <1>2, <1>3 DEF IInv, Pointers

\* A wrapper that passes by gets a new object.
LEMMA AllocPassing ==
  ASSUME IInv, NEW g \in Goroutines, NEW slot \in Passing, slot \notin Transient(pc[g]),
         NEW object \in Holds[slot], HasMemory,
         \/ heap' = [heap EXCEPT ![Fresh] = object]
         \/ heap' = ArcRoundTrip(g, [heap EXCEPT ![Fresh] = object]),
         ptr' = [ptr EXCEPT ![g][slot] = Fresh],
         UNCHANGED <<before, deferred>>,
         NEW label \in Labels, Goto(g, label),
         Transient(pc[g]) \cup {slot} \subseteq Transient(label),
         label \notin Idle, pc[g] \notin Idle, label \in Early => pc[g] \in Early
  PROVE  IInv'
<1>1. pc'[g] = label /\ pc' = [pc EXCEPT ![g] = pc'[g]]
  BY DEF Goto, IInv
<1>2. deferred' = [deferred EXCEPT ![g] = deferred'[g]]
  BY DEF IInv
<1>3. Placed(g) /\ Calls(deferred[g], Held(g))
  BY DEF IInv
<1>4. slot \in Slots /\ slot \notin LongLived /\ {"state", "setup"} \subseteq LongLived /\ LongLived \subseteq Slots
      /\ Passing \subseteq Slots
  BY SlotsAre DEF LongLived
<1>5. ptr[g][slot] = Nil
  BY <1>3 DEF Placed
<1>6. /\ heap' \in Heaps /\ ptr' \in Pointers /\ Own(heap', ptr')
      /\ \A s \in Slots : s # slot => ptr'[g][s] = ptr[g][s]
      /\ \A k \in Goroutines : k # g => ptr'[k] = ptr[k]
  BY <1>4, <1>5, AllocStep
<1>7. Held(g)' = Held(g) /\ before' \in Fronts
  BY <1>4, <1>6 DEF Held, IInv
<1>8. Placed(g)'
  <2>1. \A s \in Passing : ptr'[g][s] # Nil => s \in Transient(label)
    BY <1>3, <1>4, <1>6 DEF Placed
  <2>2. ptr'[g]["state"] = ptr[g]["state"] /\ ptr'[g]["setup"] = ptr[g]["setup"]
    BY <1>4, <1>6
  <2> QED BY <2>1, <2>2, <1>1, <1>3 DEF Placed, Idle
<1> QED BY <1>1, <1>2, <1>3, <1>6, <1>7, <1>8, StepKeeps

\* Wrappers that pass by are freed.
LEMMA FreePassing ==
  ASSUME IInv, NEW g \in Goroutines, NEW slots \in SUBSET Passing,
         heap' = Released(g, slots) \/ heap' = ArcRoundTrip(g, Released(g, slots)),
         ptr' = Cleared(g, slots), UNCHANGED <<before, deferred>>,
         NEW label \in Labels, Goto(g, label),
         Transient(pc[g]) \ slots \subseteq Transient(label),
         label \notin {"create", "done"}, pc[g] \notin Idle, label \in Early => pc[g] \in Early
  PROVE  IInv'
<1>1. pc'[g] = label /\ pc' = [pc EXCEPT ![g] = pc'[g]]
  BY DEF Goto, IInv
<1>2. deferred' = [deferred EXCEPT ![g] = deferred'[g]]
  BY DEF IInv
<1>3. Placed(g) /\ Calls(deferred[g], Held(g))
  BY DEF IInv
<1>4. /\ slots \in SUBSET Slots /\ \A s \in LongLived : s \notin slots
      /\ {"state", "setup"} \subseteq LongLived /\ LongLived \subseteq Slots /\ Passing \subseteq Slots
  BY SlotsAre DEF LongLived
<1> DEFINE h == Released(g, slots)
<1>5. /\ h \in Heaps /\ ptr' \in Pointers /\ Own(h, ptr')
      /\ \A s \in Slots : ptr'[g][s] = IF s \in slots THEN Nil ELSE ptr[g][s]
      /\ \A k \in Goroutines : k # g => ptr'[k] = ptr[k]
  BY <1>4, FreeOwns DEF IInv
<1>6. ptr[g]["state"] \in Cells /\ ptr'[g]["state"] = ptr[g]["state"]
  BY <1>4, <1>5, HasState
<1> HIDE DEF h
<1>7. heap' \in Heaps /\ Own(heap', ptr')
  BY <1>5, <1>6, ArcOwns DEF h
<1>8. /\ heap' \in Heaps /\ ptr' \in Pointers /\ Own(heap', ptr') /\ before' \in Fronts
      /\ \A s \in Slots : ptr'[g][s] = IF s \in slots THEN Nil ELSE ptr[g][s]
      /\ \A k \in Goroutines : k # g => ptr'[k] = ptr[k]
  BY <1>5, <1>7 DEF IInv
<1>9. Held(g)' = Held(g)
  BY <1>4, <1>8 DEF Held
<1>10. Placed(g)'
  <2>1. \A s \in Passing : ptr'[g][s] # Nil => s \in Transient(label)
    BY <1>3, <1>4, <1>8 DEF Placed
  <2>2. ptr'[g]["state"] = ptr[g]["state"] /\ ptr'[g]["setup"] = ptr[g]["setup"]
    BY <1>4, <1>8
  <2> QED BY <2>1, <2>2, <1>1, <1>3 DEF Placed
<1> QED BY <1>1, <1>2, <1>3, <1>8, <1>9, <1>10, StepKeeps

\* A long-lived wrapper gets its object, and its Free is deferred.
LEMMA AllocLongLived ==
  ASSUME IInv, NEW g \in Goroutines, NEW slot \in LongLived, ptr[g][slot] = Nil,
         NEW object \in Holds[slot], HasMemory,
         heap' = [heap EXCEPT ![Fresh] = object], ptr' = [ptr EXCEPT ![g][slot] = Fresh],
         before' \in Fronts, Defer(g, <<slot>>),
         NEW label \in Labels, Goto(g, label),
         Transient(pc[g]) \subseteq Transient(label), label \notin Idle,
         slot = "state" \/ pc[g] \notin Idle,
         label \in Early => pc[g] \in Early /\ slot # "setup"
  PROVE  IInv'
<1>1. pc'[g] = label /\ pc' = [pc EXCEPT ![g] = pc'[g]]
  BY DEF Goto, IInv
<1>2. deferred'[g] = deferred[g] \o <<slot>> /\ deferred' = [deferred EXCEPT ![g] = deferred'[g]]
  BY DEF IInv, Defer
<1>3. Placed(g) /\ Calls(deferred[g], Held(g))
  BY DEF IInv
<1>4. /\ slot \in Slots /\ slot \notin Passing
      /\ {"state", "setup"} \subseteq LongLived /\ LongLived \subseteq Slots /\ Passing \subseteq Slots
  BY SlotsAre DEF LongLived
<1>5. /\ heap' \in Heaps /\ ptr' \in Pointers /\ Own(heap', ptr')
      /\ ptr'[g][slot] # Nil
      /\ \A s \in Slots : s # slot => ptr'[g][s] = ptr[g][s]
      /\ \A k \in Goroutines : k # g => ptr'[k] = ptr[k]
  BY <1>4, AllocStep
<1>6. Held(g)' = Held(g) \cup {slot} /\ slot \notin Held(g)
  BY <1>4, <1>5 DEF Held
<1>7. Calls(deferred'[g], Held(g)')
  BY <1>2, <1>3, <1>6, DeferCalls
<1>8. Placed(g)'
  <2>1. \A s \in Passing : ptr'[g][s] # Nil => s \in Transient(label)
    BY <1>3, <1>4, <1>5 DEF Placed
  <2>2. ptr'[g]["state"] # Nil
    BY <1>3, <1>4, <1>5 DEF Placed
  <2>3. label \in Early => ptr'[g]["setup"] = Nil
    BY <1>3, <1>4, <1>5 DEF Placed
  <2> QED BY <2>1, <2>2, <2>3, <1>1 DEF Placed, Idle
<1> QED BY <1>1, <1>2, <1>5, <1>7, <1>8, StepKeeps

-----------------------------------------------------------------------------
(* The steps of the programs.                                              *)

LEMMA TransientIs ==
  /\ \A label \in {"create", "greet", "finish", "open", "compose", "encode", "loop", "return", "done"} :
       Transient(label) = {}
  /\ Transient("greeting") = {"buffer"} /\ Transient("written") = {"buffer"}
  /\ Transient("handle") = {"message"} /\ Transient("answer") = {"message", "answer"}
  /\ Transient("copied") = {"buffer", "answer", "message"}
  BY DEF Transient

LEMMA HoldsAre ==
  /\ Holds["state"] = {"state"} /\ Holds["encoder"] = {"encoder"}
  /\ Holds["decoder"] = {"decoder"} /\ Holds["setup"] = {"SetupConnection"}
  /\ Holds["message"] = MessageKinds /\ Holds["buffer"] = {"buffer"}
  /\ Holds["answer"] = {"SetupConnectionSuccess"}
  BY DEF Holds

LEMMA FreeIsCleared ==
  ASSUME NEW g, NEW slots, Free(g, slots)
  PROVE  heap' = Released(g, slots) /\ ptr' = Cleared(g, slots)
  BY DEF Free, Cleared

LEMMA CreateKeeps ==
  ASSUME IInv, NEW g \in Goroutines, Create(g)
  PROVE  IInv'
<1>1. pc[g] = "create" /\ deferred[g] = <<>>
  BY DEF Create, At, IInv, Placed
<1>2. ptr[g]["state"] = Nil
  BY <1>1 DEF IInv, Calls, ToSet, Held, LongLived
<1>3. CASE NewState(g) /\ Defer(g, <<"state">>) /\ Goto(g, "greet")
  <2>1. before' \in Fronts
    BY <1>3, FreshIsFree, WordAssumption DEF NewState, Alloc, IInv, Fronts
  <2>2. HasMemory /\ heap' = [heap EXCEPT ![Fresh] = "state"] /\ ptr' = [ptr EXCEPT ![g]["state"] = Fresh]
    BY <1>3 DEF NewState, Alloc
  <2>3. "greet" \in Labels /\ "state" \in LongLived /\ "greet" \notin Idle /\ pc[g] \in Early
    BY <1>1 DEF Labels, LongLived, Idle, Early
  <2> QED BY <1>1, <1>2, <1>3, <2>1, <2>2, <2>3, TransientIs, HoldsAre, AllocLongLived
<1>4. CASE Leave(g) /\ UNCHANGED <<heap, before, ptr, deferred>>
  BY <1>1, <1>4, TransientIs, MoveKeeps DEF Leave, Labels, Idle, Early
<1> QED BY <1>3, <1>4 DEF Create

LEMMA GreetKeeps ==
  ASSUME IInv, NEW g \in Goroutines, Greet(g)
  PROVE  IInv'
<1>1. pc[g] = "greet"
  BY DEF Greet, At
<1>2. CASE Alloc(g, "buffer", "buffer") /\ Goto(g, "greeting")
  <2>1. "greeting" \in Labels /\ "buffer" \in Passing /\ "greeting" \notin Idle
        /\ pc[g] \notin Idle /\ pc[g] \in Early
    BY <1>1 DEF Labels, Passing, Idle, Early
  <2> QED BY <1>1, <1>2, <2>1, TransientIs, HoldsAre, AllocPassing DEF Alloc, Greet
<1>3. CASE Leave(g) /\ UNCHANGED <<heap, ptr>>
  BY <1>1, <1>3, TransientIs, MoveKeeps DEF Leave, Labels, Idle, Early, Greet
<1> QED BY <1>2, <1>3 DEF Greet

LEMMA GreetingKeeps ==
  ASSUME IInv, NEW g \in Goroutines, Greeting(g)
  PROVE  IInv'
<1>1. pc[g] = "greeting" /\ heap' = Released(g, {"buffer"}) /\ ptr' = Cleared(g, {"buffer"})
      /\ UNCHANGED <<before, deferred>>
  BY FreeIsCleared DEF Greeting, At
<1>2. PICK label \in {"return", "finish", "open"} : Goto(g, label)
  BY DEF Greeting, Leave
<1>3. label \in Labels /\ label \notin {"create", "done"} /\ {"buffer"} \in SUBSET Passing
      /\ pc[g] \notin Idle /\ pc[g] \in Early
  BY <1>1 DEF Labels, Idle, Early, Passing
<1>4. Transient(pc[g]) \ {"buffer"} \subseteq Transient(label)
  BY <1>1, TransientIs
<1> QED BY <1>1, <1>2, <1>3, <1>4, FreePassing

LEMMA FinishKeeps ==
  ASSUME IInv, NEW g \in Goroutines, Finish(g)
  PROVE  IInv'
<1>1. pc[g] = "finish" /\ UNCHANGED <<heap, before, ptr, deferred>>
  BY DEF Finish, At
<1>2. PICK label \in {"return", "open"} : Goto(g, label)
  BY DEF Finish, Leave
<1> QED BY <1>1, <1>2, TransientIs, MoveKeeps DEF Labels, Idle, Early

LEMMA OpenKeeps ==
  ASSUME IInv, NEW g \in Goroutines, Open(g)
  PROVE  IInv'
<1>1. pc[g] = "open" /\ before' \in Fronts
  BY DEF Open, At, IInv
<1>2. PICK slot \in {"encoder", "decoder"} :
        /\ ptr[g][slot] = Nil /\ Alloc(g, slot, slot) /\ Defer(g, <<slot>>)
        /\ \/ Goto(g, IF Program[g] = "client" THEN "compose" ELSE "loop")
           \/ UNCHANGED pc
  BY DEF Open
<1>3. Goto(g, "open") \/ Goto(g, "compose") \/ Goto(g, "loop")
  <2>1. UNCHANGED pc => Goto(g, "open")
    BY <1>1 DEF IInv, Goto
  <2> QED BY <1>2, <2>1
<1>4. PICK label \in {"open", "compose", "loop"} : Goto(g, label)
  BY <1>3
<1>5. slot \in LongLived /\ slot # "setup" /\ slot \in Holds[slot] /\ label \in Labels /\ label \notin Idle
      /\ pc[g] \notin Idle /\ pc[g] \in Early
  BY <1>1, HoldsAre DEF LongLived, Labels, Idle, Early
<1>6. Transient(pc[g]) \subseteq Transient(label)
  BY <1>1, TransientIs
<1> QED BY <1>1, <1>2, <1>4, <1>5, <1>6, AllocLongLived DEF Alloc

LEMMA ComposeKeeps ==
  ASSUME IInv, NEW g \in Goroutines, Compose(g)
  PROVE  IInv'
<1>1. pc[g] = "compose" /\ before' = before /\ before \in Fronts
  BY DEF Compose, At, IInv
<1>2. CASE Alloc(g, "setup", "SetupConnection") /\ Defer(g, <<"setup">>) /\ Goto(g, "encode")
  <2>1. ptr[g]["setup"] = Nil
    BY <1>1 DEF IInv, Placed, Early
  <2>2. "encode" \in Labels /\ "encode" \notin Idle /\ "encode" \notin Early /\ pc[g] \notin Idle
        /\ "setup" \in LongLived
    BY <1>1 DEF Labels, Idle, Early, LongLived
  <2> QED BY <1>1, <1>2, <2>1, <2>2, TransientIs, HoldsAre, AllocLongLived DEF Alloc
<1>3. CASE Leave(g) /\ UNCHANGED <<heap, ptr, deferred>>
  BY <1>1, <1>3, TransientIs, MoveKeeps DEF Leave, Labels, Idle, Early
<1> QED BY <1>2, <1>3 DEF Compose

LEMMA EncodeSetupKeeps ==
  ASSUME IInv, NEW g \in Goroutines, EncodeSetup(g)
  PROVE  IInv'
<1>1. pc[g] = "encode" /\ UNCHANGED <<before, deferred>> /\ pc[g] \notin Idle
  BY DEF EncodeSetup, At, Idle
<1>2. CASE Encode(g) /\ Goto(g, "written")
  <2>1. /\ HasMemory /\ heap' = ArcRoundTrip(g, [heap EXCEPT ![Fresh] = "buffer"])
        /\ ptr' = [ptr EXCEPT ![g]["buffer"] = Fresh]
    BY <1>2 DEF Encode
  <2>2. "written" \in Labels /\ "buffer" \in Passing /\ "written" \notin Idle /\ "written" \notin Early
    BY DEF Labels, Passing, Idle, Early
  <2> QED BY <1>1, <1>2, <2>1, <2>2, TransientIs, HoldsAre, AllocPassing
<1>3. CASE EncodeFails(g, {}) /\ Leave(g)
  <2>1. heap' = ArcRoundTrip(g, Released(g, {})) /\ ptr' = Cleared(g, {})
    BY <1>3 DEF EncodeFails, Cleared
  <2> QED BY <1>1, <1>3, <2>1, TransientIs, FreePassing DEF Leave, Labels, Early
<1> QED BY <1>2, <1>3 DEF EncodeSetup

LEMMA SetupWrittenKeeps ==
  ASSUME IInv, NEW g \in Goroutines, SetupWritten(g)
  PROVE  IInv'
<1>1. pc[g] = "written" /\ heap' = Released(g, {"buffer"}) /\ ptr' = Cleared(g, {"buffer"})
      /\ UNCHANGED <<before, deferred>>
  BY FreeIsCleared DEF SetupWritten, At
<1>2. PICK label \in {"return", "loop"} : Goto(g, label)
  BY DEF SetupWritten, Leave
<1>3. label \in Labels /\ label \notin {"create", "done"} /\ {"buffer"} \in SUBSET Passing
      /\ pc[g] \notin Idle /\ label \notin Early
  BY <1>1 DEF Labels, Idle, Early, Passing
<1>4. Transient(pc[g]) \ {"buffer"} \subseteq Transient(label)
  BY <1>1, TransientIs
<1> QED BY <1>1, <1>2, <1>3, <1>4, FreePassing

LEMMA LoopKeeps ==
  ASSUME IInv, NEW g \in Goroutines, Loop(g)
  PROVE  IInv'
<1>1. pc[g] = "loop" /\ UNCHANGED <<before, deferred>> /\ pc[g] \notin Idle
  BY DEF Loop, At, Idle
<1>2. CASE DecodeFails(g) /\ (Leave(g) \/ UNCHANGED pc)
  <2>1. heap' = ArcRoundTrip(g, heap) /\ UNCHANGED ptr
    BY <1>2 DEF DecodeFails
  <2>2. PICK label \in {"return", "loop"} : Goto(g, label)
    BY <1>1, <1>2 DEF Leave, Goto, IInv
  <2> QED BY <1>1, <2>1, <2>2, TransientIs, MoveKeeps DEF Labels, Early, Idle
<1>3. CASE \E m \in MessageKinds : Decode(g, m) /\ Goto(g, "handle")
  <2>1. PICK m \in MessageKinds : Decode(g, m) /\ Goto(g, "handle")
    BY <1>3
  <2>2. /\ HasMemory /\ heap' = ArcRoundTrip(g, [heap EXCEPT ![Fresh] = m])
        /\ ptr' = [ptr EXCEPT ![g]["message"] = Fresh]
    BY <2>1 DEF Decode
  <2>3. "handle" \in Labels /\ "message" \in Passing /\ "handle" \notin Idle /\ "handle" \notin Early
    BY DEF Labels, Passing, Idle, Early
  <2> QED BY <1>1, <2>1, <2>2, <2>3, TransientIs, HoldsAre, AllocPassing
<1> QED BY <1>2, <1>3 DEF Loop

LEMMA HandleKeeps ==
  ASSUME IInv, NEW g \in Goroutines, ClientHandle(g) \/ ServerHandle(g)
  PROVE  IInv'
<1>1. pc[g] = "handle" /\ UNCHANGED <<before, deferred>> /\ pc[g] \notin Idle
  BY DEF ClientHandle, ServerHandle, At, Idle
<1>2. CASE Free(g, {"message"}) /\ (Leave(g) \/ Goto(g, "loop"))
  <2>1. heap' = Released(g, {"message"}) /\ ptr' = Cleared(g, {"message"})
    BY <1>2, FreeIsCleared
  <2>2. PICK label \in {"return", "loop"} : Goto(g, label)
    BY <1>2 DEF Leave
  <2>3. label \in Labels /\ label \notin {"create", "done"} /\ {"message"} \in SUBSET Passing
        /\ label \notin Early
    BY DEF Labels, Early, Passing
  <2>4. Transient(pc[g]) \ {"message"} \subseteq Transient(label)
    BY <1>1, TransientIs
  <2> QED BY <1>1, <2>1, <2>2, <2>3, <2>4, FreePassing
<1>3. CASE Alloc(g, "answer", "SetupConnectionSuccess") /\ Goto(g, "answer")
  <2>1. "answer" \in Labels /\ "answer" \in Passing /\ "answer" \notin Idle /\ "answer" \notin Early
    BY DEF Labels, Passing, Idle, Early
  <2>2. /\ "answer" \notin Transient(pc[g])
        /\ Transient(pc[g]) \cup {"answer"} \subseteq Transient("answer")
    BY <1>1, TransientIs
  <2>3. "SetupConnectionSuccess" \in Holds["answer"]
    BY HoldsAre
  <2>4. /\ HasMemory /\ heap' = [heap EXCEPT ![Fresh] = "SetupConnectionSuccess"]
        /\ ptr' = [ptr EXCEPT ![g]["answer"] = Fresh] /\ Goto(g, "answer")
    BY <1>3 DEF Alloc
  <2> QED BY <1>1, <2>1, <2>2, <2>3, <2>4, AllocPassing
<1> QED BY <1>2, <1>3 DEF ClientHandle, ServerHandle

LEMMA EncodeAnswerKeeps ==
  ASSUME IInv, NEW g \in Goroutines, EncodeAnswer(g)
  PROVE  IInv'
<1>1. pc[g] = "answer" /\ UNCHANGED <<before, deferred>> /\ pc[g] \notin Idle
  BY DEF EncodeAnswer, At, Idle
<1>2. CASE Encode(g) /\ Goto(g, "copied")
  <2>1. /\ HasMemory /\ heap' = ArcRoundTrip(g, [heap EXCEPT ![Fresh] = "buffer"])
        /\ ptr' = [ptr EXCEPT ![g]["buffer"] = Fresh]
    BY <1>2 DEF Encode
  <2>2. "copied" \in Labels /\ "buffer" \in Passing /\ "copied" \notin Idle /\ "copied" \notin Early
    BY DEF Labels, Passing, Idle, Early
  <2>3. /\ "buffer" \notin Transient(pc[g])
        /\ Transient(pc[g]) \cup {"buffer"} \subseteq Transient("copied")
    BY <1>1, TransientIs
  <2>4. "buffer" \in Holds["buffer"]
    BY HoldsAre
  <2> QED BY <1>1, <1>2, <2>1, <2>2, <2>3, <2>4, AllocPassing
<1>3. CASE EncodeFails(g, {"answer", "message"}) /\ Leave(g)
  <2>1. /\ heap' = ArcRoundTrip(g, Released(g, {"answer", "message"}))
        /\ ptr' = Cleared(g, {"answer", "message"})
    BY <1>3 DEF EncodeFails, Cleared
  <2> QED BY <1>1, <1>3, <2>1, TransientIs, FreePassing DEF Leave, Labels, Early, Passing
<1> QED BY <1>2, <1>3 DEF EncodeAnswer

LEMMA AnswerWrittenKeeps ==
  ASSUME IInv, NEW g \in Goroutines, AnswerWritten(g)
  PROVE  IInv'
<1> DEFINE all == {"buffer", "answer", "message"}
<1>1. pc[g] = "copied" /\ heap' = Released(g, all) /\ ptr' = Cleared(g, all) /\ UNCHANGED <<before, deferred>>
  BY FreeIsCleared DEF AnswerWritten, At
<1>2. PICK label \in {"return", "loop"} : Goto(g, label)
  BY DEF AnswerWritten, Leave
<1>3. label \in Labels /\ label \notin {"create", "done"} /\ all \in SUBSET Passing
      /\ pc[g] \notin Idle /\ label \notin Early
  BY <1>1 DEF Labels, Idle, Early, Passing
<1>4. Transient(pc[g]) \ all \subseteq Transient(label)
  BY <1>1, TransientIs
<1> QED BY <1>1, <1>2, <1>3, <1>4, FreePassing

LEMMA ReturnKeeps ==
  ASSUME IInv, NEW g \in Goroutines, Return(g)
  PROVE  IInv'
<1>1. pc[g] = "return" /\ before' = before /\ before \in Fronts
  BY DEF Return, At, IInv
<1>2. CASE deferred[g] = <<>>
  BY <1>1, <1>2, TransientIs, MoveKeeps DEF Return, Labels, Idle, Early
<1>3. CASE deferred[g] # <<>>
  <2> DEFINE slot == Last(deferred[g])
  <2>1. Placed(g) /\ Calls(deferred[g], Held(g))
    BY DEF IInv
  <2>2. slot \in Held(g) /\ Calls(Front(deferred[g]), Held(g) \ {slot})
    BY <1>3, <2>1, ReturnCalls
  <2>3. slot \in LongLived /\ LongLived \subseteq Slots /\ {slot} \in SUBSET Slots /\ slot \notin Passing
    BY <2>2, SlotsAre DEF Held
  <2>4. heap' = Released(g, {slot}) /\ ptr' = Cleared(g, {slot}) /\ UNCHANGED pc
    BY <1>3, FreeIsCleared DEF Return
  <2>5. /\ heap' \in Heaps /\ ptr' \in Pointers /\ Own(heap', ptr')
        /\ \A s \in Slots : ptr'[g][s] = IF s = slot THEN Nil ELSE ptr[g][s]
        /\ \A k \in Goroutines : k # g => ptr'[k] = ptr[k]
    BY <2>3, <2>4, FreeOwns DEF IInv
  <2>6. deferred'[g] = Front(deferred[g]) /\ deferred' = [deferred EXCEPT ![g] = deferred'[g]]
    BY <1>3 DEF Return, IInv
  <2>7. Held(g)' = Held(g) \ {slot}
    BY <2>3, <2>5 DEF Held
  <2> HIDE DEF slot
  <2>8. Calls(deferred'[g], Held(g)')
    BY <2>2, <2>6, <2>7
  <2>9. Placed(g)'
    BY <1>1, <2>1, <2>3, <2>4, <2>5, SlotsAre DEF Placed, Idle, Early
  <2>10. pc' = [pc EXCEPT ![g] = pc'[g]]
    BY <2>4 DEF IInv
  <2> QED BY <1>1, <2>5, <2>6, <2>8, <2>9, <2>10, StepKeeps
<1> QED BY <1>2, <1>3

-----------------------------------------------------------------------------
(* The theorems.                                                           *)

LEMMA InitIInv == Init => IInv
<1> SUFFICES ASSUME Init
             PROVE  IInv
  OBVIOUS
<1>1. heap \in Heaps /\ before \in Fronts /\ ptr \in Pointers
  BY DEF Init, Heaps, Fronts, Pointers
<1>2. Own(heap, ptr)
  BY DEF Init, Own
<1>3. pc = [g \in Goroutines |-> pc[g]] /\ deferred = [g \in Goroutines |-> deferred[g]]
  BY DEF Init
<1>4. ASSUME NEW g \in Goroutines
      PROVE  Placed(g) /\ Calls(deferred[g], Held(g))
  <2>1. pc[g] = "create" /\ deferred[g] = <<>> /\ \A s \in Slots : ptr[g][s] = Nil
    BY DEF Init
  <2>2. Placed(g)
    BY <2>1, SlotsAre DEF Placed, Labels, Idle, LongLived
  <2>3. Held(g) = {}
    BY <2>1, SlotsAre DEF Held
  <2>4. Calls(<<>>, {})
    BY DEF Calls, ToSet, IsInjective
  <2> QED BY <2>1, <2>2, <2>3, <2>4
<1> QED BY <1>1, <1>2, <1>3, <1>4 DEF IInv

LEMMA NextIInv == IInv /\ [Next]_vars => IInv'
<1> SUFFICES ASSUME IInv, [Next]_vars
             PROVE  IInv'
  OBVIOUS
<1>1. CASE UNCHANGED vars
  BY <1>1 DEF vars, IInv, Own, Placed, Calls, Held
<1>2. ASSUME NEW g \in Goroutines,
             \/ Create(g) \/ Greet(g) \/ Greeting(g) \/ Finish(g) \/ Open(g)
             \/ Compose(g) \/ EncodeSetup(g) \/ SetupWritten(g)
             \/ Loop(g) \/ ClientHandle(g) \/ ServerHandle(g)
             \/ EncodeAnswer(g) \/ AnswerWritten(g) \/ Return(g)
      PROVE  IInv'
  BY <1>2, CreateKeeps, GreetKeeps, GreetingKeeps, FinishKeeps, OpenKeeps, ComposeKeeps,
     EncodeSetupKeeps, SetupWrittenKeeps, LoopKeeps, HandleKeeps, EncodeAnswerKeeps,
     AnswerWrittenKeeps, ReturnKeeps
<1> QED BY <1>1, <1>2 DEF Next

\* Every wrapper of ffi.go that still has its pointer points at a live object of
\* its own kind and is alone in doing so, for any number of connections, for as
\* long as no call drops the state it was given (ffi.rs:222, StateSurvivesCalls):
\* no path through the programs uses or frees an object twice of its own accord.
THEOREM WrappersOwn == Spec /\ []StateSurvivesCalls => []HandlesAreOwned
<1>1. IInv /\ StateSurvivesCalls => HandlesAreOwned
  <2> SUFFICES ASSUME IInv, StateSurvivesCalls,
                      NEW g \in Goroutines, NEW s \in Slots, ptr[g][s] # Nil
               PROVE  /\ heap[ptr[g][s]] \in Holds[s]
                      /\ \A h \in Goroutines, t \in Slots : ptr[h][t] = ptr[g][s] => g = h /\ s = t
    BY DEF HandlesAreOwned
  <2>1. CASE s = "state"
    BY <2>1, HoldsAre DEF IInv, Own, StateSurvivesCalls
  <2>2. CASE s # "state"
    BY <2>2 DEF IInv, Own, Remains
  <2> QED BY <2>1, <2>2
<1> QED BY <1>1, InitIInv, NextIInv, PTL DEF Spec

\* Everything that was handed out is held by a goroutine that still runs, be a
\* state dropped early or not: no path through the programs loses an object.
THEOREM NothingIsLost == Spec => []NothingLeaks
<1>1. IInv => NothingLeaks
  <2> SUFFICES ASSUME IInv, NEW c \in Cells, heap[c] # "free"
               PROVE  \E g \in Goroutines, s \in Slots : ptr[g][s] = c /\ pc[g] # "done"
    BY DEF NothingLeaks
  <2>1. PICK g \in Goroutines, s \in Slots : ptr[g][s] = c
    BY DEF IInv, Own
  <2>2. Placed(g) /\ Calls(deferred[g], Held(g)) /\ ptr[g][s] # Nil
    BY <2>1, NilIsNoCell DEF IInv
  <2>3. CASE pc[g] = "done"
    <3>1. deferred[g] = <<>>
      BY <2>2, <2>3 DEF Placed
    <3>2. Held(g) = {}
      BY <2>2, <3>1 DEF Calls, ToSet
    <3>3. s \notin LongLived
      BY <2>2, <3>2 DEF Held
    <3>4. s \notin Passing
      BY <2>2, <2>3, TransientIs DEF Placed
    <3> QED BY <3>3, <3>4, SlotsAre
  <2> QED BY <2>1, <2>3
<1> QED BY <1>1, InitIInv, NextIInv, PTL DEF Spec

\* Type correctness, and the deferred calls are those of the long-lived
\* wrappers in use, whatever stands in front of the states.
THEOREM HandleTypes == Spec => []TypeOK
<1>1. IInv => TypeOK
  <2> SUFFICES ASSUME IInv
               PROVE  TypeOK
    OBVIOUS
  <2>1. heap \in [Cells -> Objects \cup {"free", "dropped"}] /\ before \in [Cells -> {"zero", "other"}]
        /\ ptr \in [Goroutines -> [Slots -> Cells \cup {Nil}]]
    BY DEF IInv, Heaps, Fronts, Pointers
  <2>2. \A g \in Goroutines : pc[g] \in Labels
    BY DEF IInv, Placed
  <2>3. \A g \in Goroutines :
          deferred[g] \in Seq(LongLived) /\ ToSet(deferred[g]) = Held(g) /\ IsInjective(deferred[g])
    BY DEF IInv, Calls
  <2>4. pc \in [Goroutines -> Labels] /\ deferred \in [Goroutines -> Seq(LongLived)]
    BY <2>2, <2>3 DEF IInv
  <2> QED BY <2>1, <2>3, <2>4 DEF TypeOK, Held
<1> QED BY <1>1, InitIInv, NextIInv, PTL DEF Spec

===============================================================================
