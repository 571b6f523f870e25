--------------------------- MODULE DeliveryProofs ---------------------------
(***************************************************************************)
(* What Delivery promises is enough for the order on the screen: proved    *)
(* for every set of identifiers and topics, and any number of              *)
(* publications.                                                           *)
(***************************************************************************)
EXTENDS Delivery, TLAPS

Typed ==
  /\ pub \in Seq(Topics)
  /\ next \in [Ids -> Nat]
  /\ owed \in [Ids -> Seq(Nat)]
  /\ shown \in [Ids -> Seq(Nat)]

\* A sequence of publications older than n, the oldest first.
Ascending(s, n) ==
  \A k \in 1..Len(s) : s[k] \in 1..(n - 1) /\ \A j \in 1..(k - 1) : s[j] < s[k]

\* The inductive invariant: shown and owed together are in order, and what is
\* decided upon next is newer than both.
InOrderFor(i) ==
  /\ next[i] \in 1..(Len(pub) + 1)
  /\ Ascending(shown[i], next[i])
  /\ Ascending(owed[i], next[i])
  /\ \A j \in 1..Len(shown[i]), k \in 1..Len(owed[i]) : shown[i][j] < owed[i][k]
Sound == Typed /\ \A i \in Ids : InOrderFor(i)

-----------------------------------------------------------------------------
\* Sequences.
LEMMA Appending ==
  ASSUME NEW s \in Seq(Nat), NEW e \in Nat
  PROVE  /\ Append(s, e) \in Seq(Nat)
         /\ Len(Append(s, e)) = Len(s) + 1
         /\ \A k \in 1..Len(s) : Append(s, e)[k] = s[k]
         /\ Append(s, e)[Len(s) + 1] = e
  OBVIOUS

\* What Show leaves of a sequence is the rest of it, in order.
LEMMA Shortening ==
  ASSUME NEW s \in Seq(Nat), s # << >>
  PROVE  /\ Head(s) \in Nat /\ Head(s) = s[1] /\ 1 \in 1..Len(s)
         /\ Tail(s) \in Seq(Nat)
         /\ Len(Tail(s)) = Len(s) - 1
         /\ \A k \in 1..Len(Tail(s)) : Tail(s)[k] = s[k + 1] /\ k + 1 \in 1..Len(s)
  OBVIOUS

\* An ascending sequence grows at its end by what is newer than all of it.
LEMMA AscendingAppend ==
  ASSUME NEW s \in Seq(Nat), NEW n \in Nat, NEW m \in Nat, NEW e \in 1..(m - 1),
         n <= m, Ascending(s, n), \A k \in 1..Len(s) : s[k] < e
  PROVE  Ascending(Append(s, e), m)
  <1>1. ASSUME NEW k \in 1..Len(Append(s, e))
        PROVE  /\ Append(s, e)[k] \in 1..(m - 1)
               /\ \A j \in 1..(k - 1) : Append(s, e)[j] < Append(s, e)[k]
    <2>1. CASE k \in 1..Len(s)
      <3>1. Append(s, e)[k] = s[k] /\ s[k] \in 1..(n - 1)
        BY <2>1, Appending DEF Ascending
      <3>2. ASSUME NEW j \in 1..(k - 1) PROVE Append(s, e)[j] < Append(s, e)[k]
        <4>1. j \in 1..Len(s)
          BY <2>1
        <4> QED BY <2>1, <3>1, <4>1, Appending DEF Ascending
      <3> QED BY <3>1, <3>2
    <2>2. CASE k = Len(s) + 1
      BY <2>2, Appending
    <2> QED BY <2>1, <2>2, Appending
  <1> QED BY <1>1 DEF Ascending

\* The rest of an ascending sequence ascends.
LEMMA AscendingTail ==
  ASSUME NEW s \in Seq(Nat), NEW n \in Nat, s # << >>, Ascending(s, n)
  PROVE  /\ Ascending(Tail(s), n)
         /\ Head(s) \in 1..(n - 1)
         /\ \A k \in 1..Len(Tail(s)) : Head(s) < Tail(s)[k]
  <1>1. ASSUME NEW k \in 1..Len(Tail(s))
        PROVE  /\ Tail(s)[k] \in 1..(n - 1)
               /\ \A j \in 1..(k - 1) : Tail(s)[j] < Tail(s)[k]
               /\ Head(s) < Tail(s)[k]
    <2>1. Tail(s)[k] = s[k + 1] /\ k + 1 \in 1..Len(s)
      BY Shortening
    <2>2. ASSUME NEW j \in 1..(k - 1) PROVE Tail(s)[j] < Tail(s)[k]
      <3>1. j \in 1..Len(Tail(s)) /\ j + 1 \in 1..((k + 1) - 1)
        BY Shortening
      <3>2. Tail(s)[j] = s[j + 1]
        BY <3>1, Shortening
      <3> QED BY <2>1, <3>1, <3>2 DEF Ascending
    <2>3. Head(s) = s[1] /\ 1 \in 1..((k + 1) - 1)
      BY Shortening
    <2> QED BY <2>1, <2>2, <2>3 DEF Ascending
  <1>2. Head(s) \in 1..(n - 1)
    BY Shortening DEF Ascending
  <1> QED BY <1>1, <1>2 DEF Ascending

\* An ascending sequence with a greater number behind it ascends.
LEMMA AscendingMore ==
  ASSUME NEW s \in Seq(Nat), NEW n \in Nat, NEW m \in Nat, n <= m, Ascending(s, n)
  PROVE  Ascending(s, m)
  BY DEF Ascending

-----------------------------------------------------------------------------
\* The steps.
LEMMA ArriveSound ==
  ASSUME Sound, NEW topic \in Topics, Arrive(topic)
  PROVE  Sound'
  <1>1. Typed' /\ Len(pub') = Len(pub) + 1
    BY DEF Sound, Typed, Arrive
  <1>2. ASSUME NEW i \in Ids PROVE InOrderFor(i)'
    <2>1. InOrderFor(i) /\ Len(pub) \in Nat
      BY DEF Sound, Typed
    <2>2. next'[i] = next[i] /\ shown'[i] = shown[i] /\ owed'[i] = owed[i]
      BY DEF Arrive
    <2> QED BY <1>1, <2>1, <2>2 DEF InOrderFor
  <1> QED BY <1>1, <1>2 DEF Sound

\* Deciding appends a number that no identifier has been owed before.
LEMMA DecideSound ==
  ASSUME Sound, NEW S \in SUBSET Ids, Decide(S)
  PROVE  Sound'
  <1>1. Typed
    BY DEF Sound
  <1>2. ASSUME NEW i \in Ids
        PROVE  /\ next'[i] \in Nat /\ owed'[i] \in Seq(Nat)
               /\ InOrderFor(i)'
    <2>1. /\ InOrderFor(i)
          /\ next[i] \in Nat /\ owed[i] \in Seq(Nat) /\ shown[i] \in Seq(Nat) /\ Len(pub) \in Nat
      BY <1>1 DEF Sound, Typed
    <2>2. pub' = pub /\ shown'[i] = shown[i]
      BY DEF Decide
    <2>3. CASE i \notin S
      <3>1. next'[i] = next[i] /\ owed'[i] = owed[i]
        BY <2>3 DEF Decide
      <3> QED BY <2>1, <2>2, <3>1 DEF InOrderFor
    <2>4. CASE i \in S
      <3>1. next[i] <= Len(pub) /\ next'[i] = next[i] + 1
        BY <2>4 DEF Decide
      <3>2. next'[i] \in 1..(Len(pub') + 1)
        BY <2>1, <2>2, <3>1 DEF InOrderFor
      <3>3. Ascending(shown'[i], next'[i])
        BY <2>1, <2>2, <3>1, AscendingMore DEF InOrderFor
      <3>4. CASE owed'[i] = owed[i]
        <4>1. Ascending(owed'[i], next'[i])
          BY SMTT(30), <2>1, <3>1, <3>4, AscendingMore DEF InOrderFor
        <4> QED BY <2>1, <2>2, <3>1, <3>2, <3>3, <3>4, <4>1 DEF InOrderFor
      <3>5. CASE owed'[i] = Append(owed[i], next[i])
        <4>1. \A k \in 1..Len(owed[i]) : owed[i][k] < next[i]
          BY <2>1 DEF InOrderFor, Ascending
        <4>2. /\ next[i] \in 1..((next[i] + 1) - 1) /\ next[i] + 1 \in Nat
              /\ next[i] <= next[i] + 1
              /\ Ascending(owed[i], next[i])
          BY <2>1 DEF InOrderFor
        <4>a. Ascending(Append(owed[i], next[i]), next[i] + 1)
          BY <2>1, <4>1, <4>2, AscendingAppend
        <4>3. Ascending(owed'[i], next'[i])
          BY <3>1, <3>5, <4>a
        <4>4. ASSUME NEW j \in 1..Len(shown[i]), NEW k \in 1..Len(owed'[i])
              PROVE  shown[i][j] < owed'[i][k]
          <5>1. shown[i][j] < next[i]
            BY SMTT(30), <2>1 DEF InOrderFor, Ascending
          <5>2. CASE k \in 1..Len(owed[i])
            BY <2>1, <3>5, <5>2, Appending DEF InOrderFor
          <5>3. CASE k = Len(owed[i]) + 1
            BY <2>1, <3>5, <5>1, <5>3, Appending
          <5> QED BY <2>1, <3>5, <5>2, <5>3, Appending
        <4>5. owed'[i] \in Seq(Nat)
          BY <2>1, <3>5, Appending
        <4> QED BY <2>1, <2>2, <3>1, <3>2, <3>3, <4>3, <4>4, <4>5 DEF InOrderFor
      <3> QED BY <3>4, <3>5 DEF Decide
    <2> QED BY <2>3, <2>4
  <1>3. Typed'
    BY <1>1, <1>2 DEF Typed, Decide
  <1> QED BY <1>2, <1>3 DEF Sound

\* Showing moves the first number owed behind those already shown.
LEMMA ShowSound ==
  ASSUME Sound, NEW i \in Ids, Show(i)
  PROVE  Sound'
  <1>1. /\ Typed /\ InOrderFor(i) /\ owed[i] # << >>
        /\ next[i] \in Nat /\ owed[i] \in Seq(Nat) /\ shown[i] \in Seq(Nat)
    BY DEF Sound, Typed, Show
  <1>2. /\ shown' = [shown EXCEPT ![i] = Append(shown[i], Head(owed[i]))]
        /\ owed' = [owed EXCEPT ![i] = Tail(owed[i])]
        /\ pub' = pub /\ next' = next
    BY DEF Show
  <1>3. /\ shown'[i] = Append(shown[i], Head(owed[i])) /\ owed'[i] = Tail(owed[i])
        /\ \A j \in Ids \ {i} : shown'[j] = shown[j] /\ owed'[j] = owed[j]
    BY <1>1, <1>2 DEF Typed
  <1>4. /\ Ascending(owed'[i], next[i])
        /\ Head(owed[i]) \in 1..(next[i] - 1)
        /\ \A k \in 1..Len(owed'[i]) : Head(owed[i]) < owed'[i][k]
    BY <1>1, <1>3, AscendingTail DEF InOrderFor
  <1>5. \A k \in 1..Len(shown[i]) : shown[i][k] < Head(owed[i])
    BY <1>1, Shortening DEF InOrderFor
  <1>6. Ascending(shown'[i], next[i])
    <2>1. Ascending(shown[i], next[i]) /\ next[i] <= next[i]
      BY <1>1 DEF InOrderFor
    <2>2. Ascending(Append(shown[i], Head(owed[i])), next[i])
      BY <1>1, <1>4, <1>5, <2>1, AscendingAppend
    <2> QED BY <1>3, <2>2
  <1>7. ASSUME NEW j \in 1..Len(shown'[i]), NEW k \in 1..Len(owed'[i])
        PROVE  shown'[i][j] < owed'[i][k]
    <2>1. Head(owed[i]) \in Nat
      BY <1>4
    <2>2. CASE j = Len(shown[i]) + 1
      BY <1>1, <1>3, <1>4, <2>1, <2>2, Appending
    <2>3. CASE j \in 1..Len(shown[i])
      <3>1. shown'[i][j] = shown[i][j]
        BY <1>1, <1>3, <2>1, <2>3, Appending
      <3>2. owed'[i][k] = owed[i][k + 1] /\ k + 1 \in 1..Len(owed[i])
        BY <1>1, <1>3, Shortening
      <3> QED BY <1>1, <2>3, <3>1, <3>2 DEF InOrderFor
    <2> QED BY SMTT(30), <1>1, <1>3, <2>1, <2>2, <2>3, Appending
  <1>8. InOrderFor(i)'
    BY <1>1, <1>2, <1>4, <1>6, <1>7 DEF InOrderFor
  <1>9. ASSUME NEW j \in Ids \ {i} PROVE InOrderFor(j)'
    <2>1. InOrderFor(j)
      BY DEF Sound
    <2> QED BY <1>2, <1>3, <2>1 DEF InOrderFor
  <1>10. Typed'
    <2>1. Append(shown[i], Head(owed[i])) \in Seq(Nat) /\ Tail(owed[i]) \in Seq(Nat)
      BY <1>1, Shortening, Appending
    <2> QED BY <1>1, <1>2, <2>1 DEF Typed
  <1> QED BY <1>8, <1>9, <1>10 DEF Sound

\* An arrival and a change of mind move no number at all.
LEMMA RestSound ==
  ASSUME Sound, UNCHANGED <<pub, next, owed, shown>>
  PROVE  Sound'
  BY DEF Sound, Typed, InOrderFor

\* At the start there is none.
LEMMA InitSound ==
  ASSUME Init
  PROVE  Sound
  <1>1. << >> \in Seq(Nat) /\ << >> \in Seq(Topics)
    OBVIOUS
  <1>2. Typed
    BY <1>1 DEF Init, Typed
  <1>3. ASSUME NEW i \in Ids PROVE InOrderFor(i)
    BY DEF Init, InOrderFor, Ascending
  <1> QED BY <1>2, <1>3 DEF Sound

\* Every identifier is shown publications that have arrived, in the order of
\* their arrival and none twice, whatever is wanted when: what the broker
\* owes by implementing Delivery (KeepsPromise of Broker).
THEOREM ShownOnceInOrder == Spec => []ShownInOrder
  <1>1. Init => Sound
    BY InitSound
  <1>2. Sound /\ [Next]_vars => Sound'
    <2> SUFFICES ASSUME Sound, [Next]_vars PROVE Sound'
      OBVIOUS
    <2>1. ASSUME NEW topic \in Topics, Arrive(topic) PROVE Sound'
      BY <2>1, ArriveSound
    <2>2. ASSUME NEW S \in (SUBSET Ids) \ {{}}, Decide(S) PROVE Sound'
      BY <2>2, DecideSound
    <2>3. ASSUME NEW i \in Ids, Show(i) PROVE Sound'
      BY <2>3, ShowSound
    <2>4. ASSUME NEW i \in Ids, Change(i) PROVE Sound'
      BY <2>4, RestSound DEF Change
    <2>5. CASE UNCHANGED vars
      BY <2>5, RestSound DEF vars
    <2> QED BY <2>1, <2>2, <2>3, <2>4, <2>5 DEF Next
  <1>3. Sound => ShownInOrder
    <2> SUFFICES ASSUME Sound, NEW i \in Ids, NEW j \in 1..Len(shown[i]), NEW k \in 1..Len(shown[i])
                 PROVE  /\ shown[i][k] \in 1..Len(pub)
                        /\ j < k => shown[i][j] < shown[i][k]
      BY DEF ShownInOrder
    <2>1. /\ next[i] \in 1..(Len(pub) + 1) /\ Len(pub) \in Nat
          /\ Ascending(shown[i], next[i])
      BY DEF Sound, Typed, InOrderFor
    <2>2. shown[i][k] \in 1..(next[i] - 1)
      BY <2>1 DEF Ascending
    <2>3. j < k => j \in 1..(k - 1)
      OBVIOUS
    <2> QED BY <2>1, <2>2, <2>3 DEF Ascending
  <1> QED BY <1>1, <1>2, <1>3, PTL DEF Spec
=============================================================================
