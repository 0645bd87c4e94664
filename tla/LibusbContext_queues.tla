------------------------ MODULE LibusbContext_queues ------------------------
(***************************************************************************)
(* The queues of LibusbContext: no transfer is stranded in them, and the   *)
(* answers of an input destination are given in the order of submission.   *)
(*                                                                         *)
(* Calls and transfers of one destination do not pair up: a transfer may   *)
(* be gone before its call is answered, and its answer is given to another *)
(* one.  What holds is a balance: the transfers in flight whose calls were *)
(* started are no more than the answers in stock and the call that runs    *)
(* (InputsBalanced), and the calls not started yet no more than the        *)
(* threads about to start one (StartersSuffice).  The order of answers     *)
(* rests on a chain: what was given comes before the answers in stock,     *)
(* those before the call that runs, and that before the calls not started  *)
(* (OrderInv).                                                             *)
(***************************************************************************)
EXTENDS LibusbContext_proofs, FiniteSetTheorems

\* The positions in the queues tell the transfers apart.
Positions ==
  /\ \A x \in Transfer : addedAt[x] <= adds
  /\ \A x, y \in Submitted : addedAt[x] = addedAt[y] => x = y

PreparedOn(d) == {x \in prepared : DestOf[x] = d}
StartedOn(d) == InFlightOn(d) \ prepared
Starters(d) == {t \in Thread : pc[t] = "submitted" /\ DestOf[job[t]] = d}
FromPage(d) == IF jsStart = d THEN 1 ELSE 0
Running(d) == IF d \in ongoing THEN 1 ELSE 0

\* Whoever is about to start a call has submitted a transfer; so far these are
\* finitely many.
Finite ==
  /\ IsFiniteSet(inflight) /\ \A d \in Dest : IsFiniteSet(Starters(d))
  /\ \A t \in Thread : pc[t] = "submitted" => job[t] \in Transfer

\* The call of an output transfer in flight is prepared, runs or has been answered.
OutputsAccounted ==
  \A x \in inflight : ~IsInput(DestOf[x]) => x \in prepared \/ x \in jsCalls \/ x \in outResults

StartersSuffice ==
  \A d \in Dest \ InputDest : Cardinality(PreparedOn(d)) <= Cardinality(Starters(d)) + FromPage(d)

InputsStarting == \A d \in InputDest : PreparedOn(d) # {} => d \in ongoing \/ Starting(d)

\* Calls are started in the order of submission.
InputsInOrder ==
  \A x \in prepared, y \in inflight \ prepared :
    IsInput(DestOf[x]) /\ DestOf[x] = DestOf[y] => addedAt[y] < addedAt[x]

InputsBalanced ==
  \A d \in InputDest : Cardinality(StartedOn(d)) <= Len(results[d]) + Running(d)

QueuesInv ==
  /\ Positions /\ Finite /\ OutputsAccounted /\ StartersSuffice
  /\ InputsStarting /\ InputsInOrder /\ InputsBalanced

-----------------------------------------------------------------------------
LEMMA Sizes ==
  ASSUME TypeOK, Finite, NEW d \in Dest
  PROVE  /\ IsFiniteSet(PreparedOn(d)) /\ Cardinality(PreparedOn(d)) \in Nat
         /\ IsFiniteSet(StartedOn(d)) /\ Cardinality(StartedOn(d)) \in Nat
         /\ IsFiniteSet(Starters(d)) /\ Cardinality(Starters(d)) \in Nat
<1>1. PreparedOn(d) \in SUBSET inflight /\ StartedOn(d) \in SUBSET inflight
  BY DEF TypeOK, PreparedOn, StartedOn, InFlightOn
<1>2. IsFiniteSet(PreparedOn(d)) /\ IsFiniteSet(StartedOn(d)) /\ IsFiniteSet(Starters(d))
  BY <1>1, FS_Subset DEF Finite
<1> QED BY <1>2, FS_CardinalityType

LEMMA SubsetSize ==
  ASSUME NEW S, IsFiniteSet(S), NEW T, T \subseteq S
  PROVE  IsFiniteSet(T) /\ Cardinality(T) \in Nat /\ Cardinality(S) \in Nat
         /\ Cardinality(T) <= Cardinality(S)
<1>1. IsFiniteSet(T) /\ Cardinality(T) <= Cardinality(S)
  BY FS_Subset
<1> QED BY <1>1, FS_CardinalityType

LEMMA AddSize ==
  ASSUME NEW S, IsFiniteSet(S), NEW x, x \notin S, NEW T, T = S \union {x}
  PROVE  IsFiniteSet(T) /\ Cardinality(S) \in Nat /\ Cardinality(T) = Cardinality(S) + 1
BY FS_AddElement, FS_CardinalityType

LEMMA RemoveSize ==
  ASSUME NEW S, IsFiniteSet(S), NEW x, x \in S, NEW T, T = S \ {x}
  PROVE  /\ IsFiniteSet(T) /\ Cardinality(S) \in Nat /\ Cardinality(T) \in Nat
         /\ Cardinality(S) = Cardinality(T) + 1
<1>1. IsFiniteSet(T) /\ Cardinality(T) = Cardinality(S) - 1
  BY FS_RemoveElement
<1> QED BY <1>1, FS_CardinalityType

LEMMA QueuesInitially == Init => QueuesInv
<1> SUFFICES ASSUME Init PROVE QueuesInv
  OBVIOUS
<1>1. /\ inflight = {} /\ prepared = {} /\ \A t \in Thread : pc[t] # "submitted"
      /\ \A x \in Transfer : addedAt[x] = 0 /\ adds = 0
      /\ \A d \in InputDest : results[d] = <<>>
      /\ ongoing = {} /\ outResults = {}
  BY DEF Init
<1>2. \A d : PreparedOn(d) = {} /\ StartedOn(d) = {} /\ Starters(d) = {}
  BY <1>1 DEF PreparedOn, StartedOn, InFlightOn, Starters
<1>3. IsFiniteSet({}) /\ Cardinality({}) = 0
  BY FS_EmptySet
<1>4. Finite
  BY <1>1, <1>2, <1>3 DEF Finite
<1>5. StartersSuffice /\ InputsBalanced
  <2>1. /\ \A d : FromPage(d) \in Nat /\ Running(d) \in Nat
        /\ \A d \in InputDest : Len(results[d]) = 0
    BY <1>1 DEF FromPage, Running
  <2>2. \A d \in Dest : Cardinality(PreparedOn(d)) = 0 /\ Cardinality(Starters(d)) = 0
                          /\ Cardinality(StartedOn(d)) = 0
    BY <1>2, <1>3
  <2>3. StartersSuffice
    BY <2>1, <2>2 DEF StartersSuffice
  <2>4. InputsBalanced
    BY <2>1, <2>2, TransferAssumption DEF InputsBalanced
  <2> QED BY <2>3, <2>4
<1>6. Positions /\ OutputsAccounted /\ InputsStarting /\ InputsInOrder
  BY <1>1, <1>2 DEF Positions, OutputsAccounted, InputsStarting, InputsInOrder, Submitted
<1> QED BY <1>4, <1>5, <1>6 DEF QueuesInv

\* The steps that leave the queues, and who is about to start a call.
LEMMA StillQueues ==
  ASSUME QueuesInv,
         UNCHANGED <<inflight, addedAt, adds, prepared, ongoing, jsCalls, jsStart, results,
                     outResults>>,
         \A t \in Thread : (pc'[t] = "submitted") <=> (pc[t] = "submitted"),
         \A t \in Thread : pc[t] = "submitted" => job'[t] = job[t]
  PROVE  QueuesInv'
<1>1. \A d : Starters(d)' = Starters(d)
  BY DEF Starters
<1>2. \A d : Starting(d) => Starting(d)'
  BY DEF Starting
<1>3. \A d : PreparedOn(d)' = PreparedOn(d) /\ StartedOn(d)' = StartedOn(d)
  BY DEF PreparedOn, StartedOn, InFlightOn
<1>4. Finite'
  BY <1>1 DEF QueuesInv, Finite
<1>5. Positions' /\ OutputsAccounted' /\ InputsInOrder'
  BY DEF QueuesInv, Positions, OutputsAccounted, InputsInOrder, Submitted
<1>6. StartersSuffice' /\ InputsStarting' /\ InputsBalanced'
  BY <1>1, <1>2, <1>3 DEF QueuesInv, StartersSuffice, InputsStarting, InputsBalanced,
                          FromPage, Running
<1> QED BY <1>4, <1>5, <1>6 DEF QueuesInv

LEMMA SubmitQueues ==
  ASSUME IInv, QueuesInv, NEW t \in Client, NEW x \in Transfer, Submit(t, x)
  PROVE  QueuesInv'
<1> DEFINE dest == DestOf[x]
<1>0. TypeOK /\ t \in Thread /\ dest \in Dest /\ inflight \subseteq Submitted
  BY TransferAssumption DEF IInv, LifeInv, ExactlyOnce, Thread
<1>1. /\ x \notin Submitted /\ Submitted' = Submitted \union {x}
      /\ addedAt'[x] = adds + 1 /\ \A y \in Transfer : y # x => addedAt'[y] = addedAt[y]
      /\ adds' = adds + 1 /\ adds \in Nat /\ \A y \in Transfer : addedAt[y] \in Nat
  BY <1>0 DEF Submit, AddTransferInFlight, Submitted, TypeOK
<1>2. /\ inflight' = inflight \union {x} /\ prepared' = prepared \union {x}
      /\ UNCHANGED <<ongoing, jsCalls, jsStart, results, outResults>>
      /\ x \notin inflight /\ x \notin prepared
  BY <1>0, <1>1 DEF Submit, AddTransferInFlight, answers, js, TypeOK
<1>3. /\ pc[t] = "idle" /\ pc'[t] = "submitted" /\ job'[t] = x
      /\ \A u \in Thread : u # t => /\ (pc'[u] = "submitted") <=> (pc[u] = "submitted")
                                    /\ job'[u] = job[u]
  BY <1>0 DEF Submit, TypeOK, Notified
<1>4. Positions'
  <2>1. \A y \in Transfer : addedAt'[y] <= adds'
    BY <1>1 DEF QueuesInv, Positions
  <2>2. \A y \in Submitted : y \in Transfer /\ addedAt'[y] = addedAt[y] /\ addedAt[y] < adds + 1
    BY <1>1 DEF QueuesInv, Positions, Submitted
  <2>3. \A y, z \in Submitted' : addedAt'[y] = addedAt'[z] => y = z
    BY <1>1, <2>2 DEF QueuesInv, Positions
  <2> QED BY <2>1, <2>3 DEF Positions
<1>5. /\ Starters(dest)' = Starters(dest) \union {t} /\ t \notin Starters(dest)
      /\ \A d \in Dest : d # dest => Starters(d)' = Starters(d)
  BY <1>0, <1>3 DEF Starters
<1>6. /\ PreparedOn(dest)' = PreparedOn(dest) \union {x} /\ x \notin PreparedOn(dest)
      /\ \A d \in Dest : d # dest => PreparedOn(d)' = PreparedOn(d)
      /\ \A d \in Dest : StartedOn(d)' = StartedOn(d)
  BY <1>2 DEF PreparedOn, StartedOn, InFlightOn
<1>7. Finite'
  <2>1. IsFiniteSet(inflight')
    BY <1>2, FS_AddElement DEF QueuesInv, Finite
  <2>2. \A d \in Dest : IsFiniteSet(Starters(d)')
    BY <1>0, <1>5, FS_AddElement DEF QueuesInv, Finite
  <2>3. \A u \in Thread : pc'[u] = "submitted" => job'[u] \in Transfer
    BY <1>3 DEF QueuesInv, Finite
  <2> QED BY <2>1, <2>2, <2>3 DEF Finite
<1>8. OutputsAccounted'
  BY <1>2 DEF QueuesInv, OutputsAccounted
<1>9. StartersSuffice'
  <2>1. Cardinality(PreparedOn(dest)') = Cardinality(PreparedOn(dest)) + 1
        /\ Cardinality(Starters(dest)') = Cardinality(Starters(dest)) + 1
    <3>1. IsFiniteSet(PreparedOn(dest)) /\ IsFiniteSet(Starters(dest))
      BY <1>0, Sizes DEF QueuesInv
    <3> HIDE DEF dest
    <3> QED BY <1>5, <1>6, <3>1, AddSize
  <2>2. Cardinality(PreparedOn(dest)) \in Nat /\ Cardinality(Starters(dest)) \in Nat
    BY <1>0, Sizes DEF QueuesInv
  <2>3. \A d : FromPage(d)' = FromPage(d) /\ FromPage(d) \in Nat
    BY <1>2 DEF FromPage
  <2>4. ASSUME NEW d \in Dest \ InputDest
        PROVE  Cardinality(PreparedOn(d)') <= Cardinality(Starters(d)') + FromPage(d)'
    <3>1. CASE d = dest
      <4>1. Cardinality(PreparedOn(dest)) <= Cardinality(Starters(dest)) + FromPage(dest)
        BY <2>4, <3>1 DEF QueuesInv, StartersSuffice
      <4> QED BY <2>1, <2>2, <2>3, <3>1, <4>1
    <3>2. CASE d # dest
      BY <1>5, <1>6, <2>3, <2>4, <3>2 DEF QueuesInv, StartersSuffice
    <3> QED BY <3>1, <3>2
  <2> QED BY <2>4 DEF StartersSuffice
<1>10. InputsStarting'
  <2>1. Starting(dest)'
    BY <1>0, <1>3 DEF Starting
  <2>2. \A d : Starting(d) => Starting(d)'
    BY <1>2, <1>3 DEF Starting
  <2> QED BY <1>2, <1>6, <2>1, <2>2, TransferAssumption DEF QueuesInv, InputsStarting
<1>11. InputsInOrder'
  <2>1. \A y \in inflight : y \in Transfer /\ addedAt'[y] = addedAt[y] /\ addedAt[y] < adds + 1
    BY <1>0, <1>1, <1>2 DEF QueuesInv, Positions, TypeOK
  <2>2. prepared \subseteq inflight
    BY <1>0 DEF TypeOK
  <2> QED BY <1>1, <1>2, <2>1, <2>2 DEF QueuesInv, InputsInOrder
<1>12. InputsBalanced'
  BY <1>2, <1>6, TransferAssumption DEF QueuesInv, InputsBalanced, Running
<1> QED BY <1>4, <1>7, <1>8, <1>9, <1>10, <1>11, <1>12 DEF QueuesInv

\* A call for destination d starts, or none can: then there is nothing left to do for
\* whoever was about to start one.
OneLess(d) ==
  /\ IsFiniteSet(PreparedOn(d)') /\ Cardinality(PreparedOn(d)') \in Nat
  /\ Cardinality(PreparedOn(d)) = Cardinality(PreparedOn(d)') + 1

Starts(d) ==
  /\ \/ PreparedOn(d) = {} /\ PreparedOn(d)' = {}
     \/ IsInput(d) /\ d \in ongoing'
     \/ ~IsInput(d) /\ OneLess(d)
  /\ \A e \in Dest : e # d => PreparedOn(e)' = PreparedOn(e)
  /\ ongoing \subseteq ongoing' /\ prepared' \subseteq prepared
  /\ jsCalls \subseteq jsCalls' /\ \A x \in prepared \ prepared' : x \in jsCalls'
  /\ InputsInOrder' /\ InputsBalanced'

LEMMA CallStarts ==
  ASSUME IInv, QueuesInv, NEW d \in Dest, StartJsCall(d), UNCHANGED <<inflight, addedAt, adds, results>>
  PROVE  Starts(d)
<1>0. TypeOK /\ prepared \subseteq inflight /\ inflight \subseteq Transfer
      /\ inflight \subseteq Submitted
  BY DEF IInv, LifeInv, TypeOK, ExactlyOnce
<1>1. CASE UNCHANGED <<prepared, ongoing, jsCalls>>
  <2>1. PreparedOn(d) = {} \/ (IsInput(d) /\ d \in ongoing)
    <3>1. ASSUME NEW x \in prepared, prepared' = prepared \ {x} PROVE FALSE
      BY <1>1, <3>1
    <3> QED BY <3>1 DEF StartJsCall, PreparedOn, IsFirst
  <2>2. \A e : PreparedOn(e)' = PreparedOn(e) /\ StartedOn(e)' = StartedOn(e)
    BY <1>1 DEF PreparedOn, StartedOn, InFlightOn
  <2>3. InputsInOrder' /\ InputsBalanced'
    BY <1>1, <2>2 DEF QueuesInv, InputsInOrder, InputsBalanced, Running
  <2> QED BY <1>1, <2>1, <2>2, <2>3 DEF Starts
<1>2. ASSUME NEW x \in PreparedOn(d), \A y \in PreparedOn(d) : addedAt[x] <= addedAt[y],
             prepared' = prepared \ {x}, jsCalls' = jsCalls \union {x},
             ongoing' = IF IsInput(d) THEN ongoing \union {d} ELSE ongoing,
             ~(IsInput(d) /\ d \in ongoing)
      PROVE  /\ IsFiniteSet(PreparedOn(d)') /\ Cardinality(PreparedOn(d)') \in Nat
             /\ Cardinality(PreparedOn(d)) = Cardinality(PreparedOn(d)') + 1
             /\ \A e \in Dest : e # d => PreparedOn(e)' = PreparedOn(e)
             /\ InputsInOrder' /\ InputsBalanced'
  <2>0. x \in prepared /\ DestOf[x] = d /\ x \in inflight /\ x \in Transfer
    BY <1>0, <1>2 DEF PreparedOn
  <2>1. /\ PreparedOn(d)' = PreparedOn(d) \ {x}
        /\ \A e \in Dest : e # d => PreparedOn(e)' = PreparedOn(e) /\ StartedOn(e)' = StartedOn(e)
        /\ StartedOn(d)' = StartedOn(d) \union {x} /\ x \notin StartedOn(d)
    BY <1>2, <2>0 DEF PreparedOn, StartedOn, InFlightOn
  <2>2. IsFiniteSet(PreparedOn(d)) /\ IsFiniteSet(StartedOn(d))
    BY <1>0, Sizes DEF QueuesInv
  <2>3. /\ IsFiniteSet(PreparedOn(d)') /\ Cardinality(PreparedOn(d)') \in Nat
        /\ Cardinality(PreparedOn(d)) = Cardinality(PreparedOn(d)') + 1
    BY <1>2, <2>1, <2>2, RemoveSize
  <2>4. InputsInOrder'
    <3> SUFFICES ASSUME NEW y \in prepared', NEW z \in inflight \ prepared',
                        IsInput(DestOf[y]), DestOf[y] = DestOf[z]
                 PROVE  addedAt[z] < addedAt[y]
      BY DEF InputsInOrder
    <3>1. CASE z = x
      <4>1. y \in PreparedOn(d) /\ y # x /\ y \in Submitted /\ x \in Submitted
        BY <1>0, <1>2, <2>0, <3>1 DEF PreparedOn
      <4>2. addedAt[x] <= addedAt[y] /\ addedAt[x] # addedAt[y]
        BY <1>2, <4>1 DEF QueuesInv, Positions
      <4>3. addedAt[x] \in Nat /\ addedAt[y] \in Nat
        BY <1>0, <2>0, <4>1 DEF TypeOK, Submitted
      <4> QED BY <3>1, <4>2, <4>3
    <3>2. CASE z # x
      BY <1>2, <3>2 DEF QueuesInv, InputsInOrder
    <3> QED BY <3>1, <3>2
  <2>5. InputsBalanced'
    <3> SUFFICES ASSUME NEW e \in InputDest
                 PROVE  Cardinality(StartedOn(e)') <= Len(results[e]) + Running(e)'
      BY DEF InputsBalanced
    <3>1. Cardinality(StartedOn(e)) <= Len(results[e]) + Running(e)
      BY DEF QueuesInv, InputsBalanced
    <3>2. CASE e = d
      <4>1. Running(e) = 0 /\ Running(e)' = 1
        BY <1>2, <3>2 DEF Running, IsInput
      <4>2. Cardinality(StartedOn(d)') = Cardinality(StartedOn(d)) + 1 /\ Cardinality(StartedOn(d)) \in Nat
        BY <2>1, <2>2, AddSize
      <4>3. results[e] \in Seq(Transfer)
        BY <1>0 DEF TypeOK
      <4>4. Len(results[e]) \in Nat
        BY <4>3
      <4> QED BY <3>1, <3>2, <4>1, <4>2, <4>4
    <3>3. CASE e # d
      <4>1. Running(e)' = Running(e) /\ e \in Dest
        BY <1>2, <3>3, TransferAssumption DEF Running
      <4> QED BY <2>1, <3>1, <3>3, <4>1
    <3> QED BY <3>2, <3>3
  <2> QED BY <2>1, <2>3, <2>4, <2>5
<1>3. CASE ~UNCHANGED <<prepared, ongoing, jsCalls>>
  <2>1. PICK x \in PreparedOn(d) :
          /\ \A y \in PreparedOn(d) : addedAt[x] <= addedAt[y]
          /\ prepared' = prepared \ {x} /\ jsCalls' = jsCalls \union {x}
          /\ ongoing' = IF IsInput(d) THEN ongoing \union {d} ELSE ongoing
          /\ ~(IsInput(d) /\ d \in ongoing)
    BY <1>3 DEF StartJsCall, IsFirst, PreparedOn
  <2>2. /\ IsFiniteSet(PreparedOn(d)') /\ Cardinality(PreparedOn(d)') \in Nat
        /\ Cardinality(PreparedOn(d)) = Cardinality(PreparedOn(d)') + 1
        /\ \A e \in Dest : e # d => PreparedOn(e)' = PreparedOn(e)
        /\ InputsInOrder' /\ InputsBalanced'
    BY <1>2, <2>1
  <2> QED BY <2>1, <2>2 DEF Starts, OneLess
<1> QED BY <1>1, <1>3

\* After the start there is one starter less for destination d.
OneStarterLess(d) ==
  /\ \A e \in Dest : e # d => /\ Cardinality(Starters(e)') = Cardinality(Starters(e))
                              /\ FromPage(e)' = FromPage(e)
                              /\ Starting(e) => Starting(e)'
  /\ Cardinality(Starters(d)') \in Nat
  /\ Cardinality(Starters(d)) + FromPage(d) = Cardinality(Starters(d)') + FromPage(d)' + 1

LEMMA StartedQueues ==
  ASSUME IInv, QueuesInv, NEW d \in Dest, Starts(d), Finite',
         UNCHANGED <<inflight, addedAt, adds, results, outResults>>, OneStarterLess(d)
  PROVE  QueuesInv'
<1>0. TypeOK /\ FromPage(d)' \in Nat
  BY DEF IInv, LifeInv, FromPage
<1>1. StartersSuffice'
  <2> SUFFICES ASSUME NEW e \in Dest \ InputDest
               PROVE  Cardinality(PreparedOn(e)') <= Cardinality(Starters(e)') + FromPage(e)'
    BY DEF StartersSuffice
  <2>1. Cardinality(PreparedOn(e)) <= Cardinality(Starters(e)) + FromPage(e)
    BY DEF QueuesInv, StartersSuffice
  <2>2. CASE e # d
    BY <2>1, <2>2 DEF Starts, OneStarterLess
  <2>3. CASE e = d
    <3>1. /\ Cardinality(PreparedOn(d)) <= Cardinality(Starters(d)') + FromPage(d)' + 1
          /\ Cardinality(Starters(d)') \in Nat
      BY <2>1, <2>3 DEF OneStarterLess
    <3>2. CASE PreparedOn(d)' = {}
      <4>1. Cardinality(PreparedOn(d)') = 0
        BY <3>2, FS_EmptySet
      <4>2. Cardinality(Starters(d)') \in Nat
        BY <3>1
      <4>3. \A a, b \in Nat : 0 <= a + b
        OBVIOUS
      <4> QED BY <1>0, <2>3, <4>1, <4>2, <4>3
    <3>3. CASE OneLess(d)
      <4>1. /\ Cardinality(PreparedOn(d)') \in Nat
            /\ Cardinality(PreparedOn(d)) = Cardinality(PreparedOn(d)') + 1
        BY <3>3 DEF OneLess
      <4>2. \A a, b, c \in Nat : a + 1 <= b + c + 1 => a <= b + c
        OBVIOUS
      <4> QED BY <1>0, <2>3, <3>1, <4>1, <4>2
    <3> QED BY <2>3, <3>2, <3>3 DEF Starts, IsInput
  <2> QED BY <2>2, <2>3
<1>2. InputsStarting'
  <2> SUFFICES ASSUME NEW e \in InputDest, PreparedOn(e)' # {}
               PROVE  e \in ongoing' \/ Starting(e)'
    BY DEF InputsStarting
  <2>1. e \in Dest /\ IsInput(e)
    BY TransferAssumption DEF IsInput
  <2>2. CASE e # d
    <3>1. PreparedOn(e) # {}
      BY <2>1, <2>2 DEF Starts, OneStarterLess
    <3> QED BY <2>1, <2>2, <3>1 DEF QueuesInv, InputsStarting, Starts, OneStarterLess
  <2>3. CASE e = d
    BY <2>1, <2>3 DEF Starts
  <2> QED BY <2>2, <2>3
<1>3. OutputsAccounted'
  BY DEF QueuesInv, OutputsAccounted, Starts
<1>4. Positions'
  BY DEF QueuesInv, Positions, Submitted
<1> QED BY <1>1, <1>2, <1>3, <1>4 DEF QueuesInv, Starts

LEMMA MaybeStartQueues ==
  ASSUME IInv, QueuesInv, NEW t \in Thread, MaybeStart(t), NEW d \in Dest, d = DestOf[job[t]]
  PROVE  QueuesInv'
<1>0. TypeOK /\ pc[t] = "submitted"
  BY DEF IInv, LifeInv, MaybeStart
<1>1. /\ StartJsCall(d)
      /\ UNCHANGED <<inflight, addedAt, adds, results, outResults, jsStart>>
  BY DEF MaybeStart, answers
<1>2. /\ pc'[t] # "submitted"
      /\ \A u \in Thread : u # t => pc'[u] = pc[u] /\ job'[u] = job[u]
  BY <1>0 DEF MaybeStart, TypeOK
<1>3. Starts(d)
  <2> QED BY <1>0, <1>1, CallStarts
<1>4. /\ t \in Starters(d) /\ Starters(d)' = Starters(d) \ {t}
      /\ \A e \in Dest : e # d => Starters(e)' = Starters(e)
  <2>1. t \in Starters(d) /\ t \notin Starters(d)'
    BY <1>0, <1>2 DEF Starters
  <2>2. \A e : \A u \in Thread : u # t => (u \in Starters(e)' <=> u \in Starters(e))
    BY <1>2 DEF Starters
  <2>3. \A e : e # d => t \notin Starters(e) /\ t \notin Starters(e)'
    BY <1>2 DEF Starters
  <2>4. \A e : Starters(e) \subseteq Thread /\ Starters(e)' \subseteq Thread
    BY DEF Starters
  <2>5. Starters(d)' = Starters(d) \ {t}
    BY <2>1, <2>2, <2>4
  <2>6. ASSUME NEW e \in Dest, e # d PROVE Starters(e)' = Starters(e)
    BY <2>2, <2>3, <2>4, <2>6
  <2> QED BY <2>1, <2>5, <2>6
<1>5. IsFiniteSet(Starters(d))
  <2> QED BY <1>0, Sizes DEF QueuesInv
<1>6. /\ IsFiniteSet(Starters(d)') /\ Cardinality(Starters(d)') \in Nat
      /\ Cardinality(Starters(d)) = Cardinality(Starters(d)') + 1
  <2> QED BY <1>4, <1>5, RemoveSize
<1>7. Finite'
  <2>1. \A u \in Thread : pc'[u] = "submitted" => job'[u] \in Transfer
    BY <1>2 DEF QueuesInv, Finite
  <2>2. \A e \in Dest : IsFiniteSet(Starters(e)')
    <3> QED BY <1>0, <1>4, <1>6 DEF QueuesInv, Finite
  <2> QED BY <1>1, <2>1, <2>2 DEF QueuesInv, Finite
<1>8. \A e \in Dest : e # d => /\ Cardinality(Starters(e)') = Cardinality(Starters(e))
                               /\ FromPage(e)' = FromPage(e)
                               /\ Starting(e) => Starting(e)'
  <2>1. \A e : Starting(e) <=> (jsStart = e \/ Starters(e) # {})
    BY DEF Starting, Starters
  <2>2. \A e : Starting(e)' <=> (jsStart' = e \/ Starters(e)' # {})
    BY DEF Starting, Starters
  <2> QED BY <1>1, <1>4, <2>1, <2>2 DEF FromPage
<1>9. Cardinality(Starters(d)) + FromPage(d)
        = Cardinality(Starters(d)') + FromPage(d)' + 1
  <2>1. FromPage(d)' = FromPage(d) /\ FromPage(d) \in Nat
    BY <1>1 DEF FromPage
  <2> QED BY <1>6, <2>1
<1>10. OneStarterLess(d)
  BY <1>6, <1>8, <1>9 DEF OneStarterLess
<1> QED BY <1>1, <1>3, <1>7, <1>10, StartedQueues

LEMMA JsStartsNextQueues ==
  ASSUME IInv, QueuesInv, JsStartsNext, NEW d \in Dest, d = jsStart
  PROVE  QueuesInv'
<1>0. TypeOK /\ NoDest \notin Dest
  BY TransferAssumption DEF IInv, LifeInv, JsStartsNext, TypeOK
<1>1. /\ StartJsCall(d) /\ jsStart' = NoDest
      /\ UNCHANGED <<inflight, addedAt, adds, results, outResults, pc, job>>
  BY DEF JsStartsNext, answers, local
<1>2. \A e : Starters(e)' = Starters(e)
  BY <1>1 DEF Starters
<1>3. FromPage(d) = 1 /\ FromPage(d)' = 0
  BY <1>0, <1>1 DEF FromPage
<1>4. \A e \in Dest : e # d => /\ FromPage(e)' = FromPage(e)
                               /\ Starting(e) => Starting(e)'
  BY <1>0, <1>1 DEF FromPage, Starting
<1>5. Finite'
  BY <1>1, <1>2 DEF QueuesInv, Finite
<1>6. Starts(d)
  BY <1>0, <1>1, CallStarts
<1>7. Cardinality(Starters(d)) \in Nat
  BY <1>0, Sizes DEF QueuesInv
<1>8. /\ Cardinality(Starters(d)) + FromPage(d)
           = Cardinality(Starters(d)') + FromPage(d)' + 1
      /\ Cardinality(Starters(d)') \in Nat
  BY <1>2, <1>3, <1>7
<1>9. \A e \in Dest : Cardinality(Starters(e)') = Cardinality(Starters(e))
  BY <1>2
<1>10. OneStarterLess(d)
  BY <1>4, <1>8, <1>9 DEF OneStarterLess
<1> QED BY <1>1, <1>5, <1>6, <1>10, StartedQueues

\* A transfer leaves the context, with an answer only if it is the first of its
\* destination: either its call was started, or no call in flight was.
LEMMA TakeQueues ==
  ASSUME IInv, QueuesInv, NEW t \in Thread, NEW x \in inflight, NEW outcome, NEW call,
         Take(t, x, outcome, call),
         \/ results' = results
         \/ \E d \in InputDest : /\ results[d] # <<>> /\ IsFirst(x, InFlightOn(d))
                                 /\ results' = [results EXCEPT ![d] = Tail(@)]
  PROVE  QueuesInv'
<1>0. TypeOK /\ x \in Transfer
  BY DEF IInv, LifeInv, TypeOK
<1>1. /\ inflight' = inflight \ {x} /\ prepared' = prepared \ {x} /\ outResults' = outResults \ {x}
      /\ UNCHANGED <<addedAt, adds, ongoing, jsCalls, jsStart, job>>
  BY DEF Take, RemoveTransferInFlight, js, local
<1>2. \A u \in Thread : (pc'[u] = "submitted") <=> (pc[u] = "submitted")
  BY <1>0 DEF Take, AtLoopHead, TypeOK
<1>3. \A e : Starters(e)' = Starters(e) /\ (Starting(e)' <=> Starting(e))
  BY <1>1, <1>2 DEF Starters, Starting
<1>4. \A e : /\ PreparedOn(e)' = PreparedOn(e) \ {x} /\ StartedOn(e)' = StartedOn(e) \ {x}
             /\ FromPage(e)' = FromPage(e) /\ FromPage(e) \in Nat
             /\ Running(e)' = Running(e) /\ Running(e) \in Nat
  BY <1>1 DEF PreparedOn, StartedOn, InFlightOn, FromPage, Running
<1>5. Positions' /\ OutputsAccounted' /\ InputsInOrder'
  BY <1>1 DEF QueuesInv, Positions, Submitted, OutputsAccounted, InputsInOrder
<1>6. Finite'
  <2>1. IsFiniteSet(inflight')
    BY <1>1, SubsetSize DEF QueuesInv, Finite
  <2> QED BY <1>1, <1>2, <1>3, <2>1 DEF QueuesInv, Finite
<1>7. \A e \in Dest : /\ Cardinality(PreparedOn(e)') <= Cardinality(PreparedOn(e))
                      /\ Cardinality(PreparedOn(e)') \in Nat /\ Cardinality(PreparedOn(e)) \in Nat
                      /\ Cardinality(StartedOn(e)') <= Cardinality(StartedOn(e))
                      /\ Cardinality(StartedOn(e)') \in Nat /\ Cardinality(StartedOn(e)) \in Nat
                      /\ IsFiniteSet(StartedOn(e)) /\ Cardinality(Starters(e)) \in Nat
  <2> SUFFICES ASSUME NEW e \in Dest
               PROVE  /\ Cardinality(PreparedOn(e)') <= Cardinality(PreparedOn(e))
                      /\ Cardinality(PreparedOn(e)') \in Nat /\ Cardinality(PreparedOn(e)) \in Nat
                      /\ Cardinality(StartedOn(e)') <= Cardinality(StartedOn(e))
                      /\ Cardinality(StartedOn(e)') \in Nat /\ Cardinality(StartedOn(e)) \in Nat
                      /\ IsFiniteSet(StartedOn(e)) /\ Cardinality(Starters(e)) \in Nat
    OBVIOUS
  <2>1. IsFiniteSet(PreparedOn(e)) /\ IsFiniteSet(StartedOn(e)) /\ Cardinality(Starters(e)) \in Nat
    BY <1>0, Sizes DEF QueuesInv
  <2>2. PreparedOn(e)' \subseteq PreparedOn(e) /\ StartedOn(e)' \subseteq StartedOn(e)
    BY <1>4
  <2> QED BY <2>1, <2>2, SubsetSize
<1>8. StartersSuffice'
  <2> SUFFICES ASSUME NEW e \in Dest \ InputDest
               PROVE  Cardinality(PreparedOn(e)') <= Cardinality(Starters(e)) + FromPage(e)
    BY <1>3, <1>4 DEF StartersSuffice
  <2>1. Cardinality(PreparedOn(e)) <= Cardinality(Starters(e)) + FromPage(e)
    BY DEF QueuesInv, StartersSuffice
  <2> QED BY <1>4, <1>7, <2>1
<1>9. InputsStarting'
  <2>1. \A e : PreparedOn(e)' # {} => PreparedOn(e) # {}
    BY <1>4
  <2> QED BY <1>1, <1>3, <2>1 DEF QueuesInv, InputsStarting
<1>10. InputsBalanced'
  <2> SUFFICES ASSUME NEW e \in InputDest
               PROVE  Cardinality(StartedOn(e)') <= Len(results'[e]) + Running(e)
    BY <1>4 DEF InputsBalanced
  <2>1. Cardinality(StartedOn(e)) <= Len(results[e]) + Running(e)
    BY DEF QueuesInv, InputsBalanced
  <2>2. e \in Dest /\ results[e] \in Seq(Transfer) /\ Len(results[e]) \in Nat
    BY <1>0, TransferAssumption DEF TypeOK
  <2>3. CASE results'[e] = results[e]
    BY <1>4, <1>7, <2>1, <2>2, <2>3
  <2>4. CASE /\ results[e] # <<>> /\ IsFirst(x, InFlightOn(e)) /\ results'[e] = Tail(results[e])
    <3>1. Len(results'[e]) = Len(results[e]) - 1 /\ Len(results'[e]) \in Nat
      BY <2>2, <2>4
    <3>2. DestOf[x] = e /\ IsInput(e) /\ \A y \in InFlightOn(e) : addedAt[x] <= addedAt[y]
      BY <2>4 DEF IsFirst, InFlightOn, IsInput
    <3>3. CASE x \in prepared
      <4>1. \A y \in StartedOn(e) : addedAt[y] < addedAt[x] /\ addedAt[x] <= addedAt[y]
        BY <3>2, <3>3 DEF QueuesInv, InputsInOrder, StartedOn, InFlightOn
      <4>2. \A y \in StartedOn(e) : addedAt[y] \in Nat
        BY <1>0 DEF StartedOn, InFlightOn, TypeOK
      <4>3. StartedOn(e) = {}
        <5> SUFFICES ASSUME NEW y \in StartedOn(e) PROVE FALSE
          OBVIOUS
        <5>1. addedAt[x] \in Nat
          BY <1>0 DEF TypeOK
        <5>2. \A a, b \in Nat : ~(a < b /\ b <= a)
          OBVIOUS
        <5> QED BY <4>1, <4>2, <5>1, <5>2
      <4>4. Cardinality(StartedOn(e)') = 0
        BY <1>4, <4>3, FS_EmptySet
      <4> QED BY <1>4, <3>1, <4>4
    <3>4. CASE x \notin prepared
      <4>1. x \in StartedOn(e)
        BY <3>2, <3>4 DEF StartedOn, InFlightOn
      <4>2. Cardinality(StartedOn(e)) = Cardinality(StartedOn(e)') + 1
        BY <1>4, <1>7, <2>2, <4>1, RemoveSize
      <4> QED BY <1>4, <1>7, <2>1, <2>2, <3>1, <4>2
    <3> QED BY <3>3, <3>4
  <2> QED BY <1>0, <2>3, <2>4 DEF TypeOK
<1> QED BY <1>5, <1>6, <1>8, <1>9, <1>10 DEF QueuesInv

LEMMA TakeStepQueues ==
  ASSUME IInv, QueuesInv, NEW t \in Thread, TakeStep(t)
  PROVE  QueuesInv'
<1>0. toCancel \subseteq inflight /\ outResults \subseteq inflight
  BY DEF IInv, LifeInv, CancellationPrecedes, CallInv, OutputResultsInFlight
<1>1. CASE TakeCancelled(t)
  BY <1>0, <1>1, TakeQueues DEF TakeCancelled
<1>2. CASE TakeTimedOut(t)
  BY <1>2, TakeQueues DEF TakeTimedOut
<1>3. CASE TakeOutputResult(t)
  BY <1>0, <1>3, TakeQueues DEF TakeOutputResult
<1>4. CASE TakeInputResult(t)
  <2>1. PICK d \in InputDest, x \in inflight :
          /\ results[d] # <<>> /\ IsFirst(x, InFlightOn(d))
          /\ Take(t, x, "answered", Head(results[d]))
          /\ results' = [results EXCEPT ![d] = Tail(@)]
    BY <1>4 DEF TakeInputResult, InFlightOn
  <2> QED BY <2>1, TakeQueues
<1> QED BY <1>1, <1>2, <1>3, <1>4 DEF TakeStep

\* An answer arrives, and the page is about to start the next call.
LEMMA JsAnswersQueues ==
  ASSUME IInv, QueuesInv, NEW x \in Transfer, JsAnswers(x), NEW d \in Dest, d = DestOf[x]
  PROVE  QueuesInv'
<1>0. TypeOK /\ NoDest \notin Dest
  BY TransferAssumption DEF IInv, LifeInv
<1>1. /\ x \in jsCalls /\ jsCalls' = jsCalls \ {x} /\ jsStart = NoDest /\ jsStart' = d
      /\ UNCHANGED <<inflight, addedAt, adds, prepared, job>>
  BY DEF JsAnswers, JsAnswersInput, JsAnswersOutput, storage, local
<1>2. \A u \in Thread : (pc'[u] = "submitted") <=> (pc[u] = "submitted")
  BY DEF JsAnswers, JsAnswersInput, JsAnswersOutput, Notified
<1>3. \A e : Starters(e)' = Starters(e) /\ PreparedOn(e)' = PreparedOn(e) /\ StartedOn(e)' = StartedOn(e)
  BY <1>1, <1>2 DEF Starters, PreparedOn, StartedOn, InFlightOn
<1>4. \A e \in Dest : Starting(e) => Starting(e)'
  BY <1>0, <1>1, <1>2 DEF Starting
<1>5. Finite' /\ Positions' /\ InputsInOrder'
  BY <1>1, <1>2, <1>3 DEF QueuesInv, Finite, Positions, Submitted, InputsInOrder
<1>6. StartersSuffice'
  <2> SUFFICES ASSUME NEW e \in Dest \ InputDest
               PROVE  Cardinality(PreparedOn(e)) <= Cardinality(Starters(e)) + FromPage(e)'
    BY <1>3 DEF StartersSuffice
  <2>1. /\ Cardinality(PreparedOn(e)) <= Cardinality(Starters(e)) + FromPage(e)
        /\ Cardinality(Starters(e)) \in Nat /\ Cardinality(PreparedOn(e)) \in Nat
    BY <1>0, Sizes DEF QueuesInv, StartersSuffice
  <2>2. FromPage(e) = 0 /\ FromPage(e)' \in Nat
    BY <1>0, <1>1 DEF FromPage
  <2> QED BY <2>1, <2>2
<1>7. CASE JsAnswersInput(x)
  <2>1. /\ IsInput(d) /\ outResults' = outResults /\ ongoing' = ongoing \ {d}
        /\ results' = [results EXCEPT ![d] = Append(@, x)]
    BY <1>7 DEF JsAnswersInput
  <2>2. OutputsAccounted'
    BY <1>1, <2>1 DEF QueuesInv, OutputsAccounted
  <2>3. InputsStarting'
    <3> SUFFICES ASSUME NEW e \in InputDest, PreparedOn(e)' # {}
                 PROVE  e \in ongoing' \/ Starting(e)'
      BY DEF InputsStarting
    <3>1. CASE e = d
      BY <1>1, <3>1 DEF Starting
    <3>2. CASE e # d
      BY <1>3, <1>4, <2>1, <3>2, TransferAssumption DEF QueuesInv, InputsStarting
    <3> QED BY <3>1, <3>2
  <2>4. InputsBalanced'
    <3> SUFFICES ASSUME NEW e \in InputDest
                 PROVE  Cardinality(StartedOn(e)) <= Len(results'[e]) + Running(e)'
      BY <1>3 DEF InputsBalanced
    <3>1. /\ Cardinality(StartedOn(e)) <= Len(results[e]) + Running(e)
          /\ results[e] \in Seq(Transfer)
      BY <1>0 DEF QueuesInv, InputsBalanced, TypeOK
    <3>2. CASE e = d
      <4>1. results'[e] = Append(results[e], x)
        BY <1>0, <2>1, <3>2 DEF TypeOK
      <4>2. Len(results'[e]) = Len(results[e]) + 1 /\ Len(results[e]) \in Nat
        BY <3>1, <4>1
      <4>3. Running(e) \in {0, 1} /\ Running(e)' = 0
        BY <2>1, <3>2 DEF Running
      <4>4. Cardinality(StartedOn(e)) \in Nat
        BY <1>0, Sizes, TransferAssumption DEF QueuesInv
      <4> QED BY <3>1, <4>2, <4>3, <4>4
    <3>3. CASE e # d
      BY <1>0, <2>1, <3>1, <3>3 DEF Running, TypeOK
    <3> QED BY <3>2, <3>3
  <2> QED BY <1>5, <1>6, <2>2, <2>3, <2>4 DEF QueuesInv
<1>8. CASE JsAnswersOutput(x)
  <2>1. /\ ~IsInput(d) /\ UNCHANGED <<ongoing, results>>
        /\ outResults \subseteq outResults' /\ (x \in inflight => x \in outResults')
    BY <1>8 DEF JsAnswersOutput
  <2>2. OutputsAccounted'
    BY <1>1, <2>1 DEF QueuesInv, OutputsAccounted
  <2>3. InputsStarting' /\ InputsBalanced'
    BY <1>3, <1>4, <2>1, TransferAssumption DEF QueuesInv, InputsStarting, InputsBalanced, Running
  <2> QED BY <1>5, <1>6, <2>2, <2>3 DEF QueuesInv
<1> QED BY <1>7, <1>8 DEF JsAnswers

LEMMA NextQueues == IInv /\ QueuesInv /\ [Next]_vars => QueuesInv'
<1> SUFFICES ASSUME IInv, QueuesInv, [Next]_vars PROVE QueuesInv'
  OBVIOUS
<1>0. TypeOK
  BY DEF IInv, LifeInv
<1>1. CASE UNCHANGED vars
  <2>1. UNCHANGED <<inflight, addedAt, adds, prepared, ongoing, jsCalls, jsStart, results,
                    outResults, pc, job>>
    BY <1>1 DEF vars, storage, answers, js, local
  <2> QED BY <2>1, StillQueues
<1>2. ASSUME NEW t \in Client, NEW x \in Transfer, Submit(t, x) PROVE QueuesInv'
  BY <1>2, SubmitQueues
<1>3. ASSUME NEW t \in Thread, ThreadStep(t) \/ SpuriousWake(t) PROVE QueuesInv'
  <2>1. CASE MaybeStart(t)
    <3>1. DestOf[job[t]] \in Dest
      BY <2>1, TransferAssumption DEF QueuesInv, Finite, MaybeStart
    <3> QED BY <2>1, <3>1, MaybeStartQueues
  <2>2. CASE TakeStep(t)
    BY <2>2, TakeStepQueues
  <2>3. CASE Quiet(t) \/ FillTransfer(t) \/ RunCallback(t)
    <3>1. UNCHANGED <<inflight, addedAt, adds, prepared, ongoing, jsCalls, jsStart, results,
                      outResults>>
      BY <2>3 DEF Quiet, HandleEvents, TimeoutReturn, CompletedReturn, ReturnToCaller, Park,
             EnterWait, TimedWake, SpuriousWake, Wake, Signal, SignalLocked, FillTransfer,
             RunCallback, storage, answers, js
    <3>2. \A u \in Thread : (pc'[u] = "submitted") <=> (pc[u] = "submitted")
      BY <1>0, <2>3 DEF TypeOK, Quiet, HandleEvents, TimeoutReturn, CompletedReturn, ReturnToCaller,
             Park, EnterWait, TimedWake, SpuriousWake, Wake, Signal, SignalLocked, FillTransfer,
             RunCallback, AtLoopHead, Notified
    <3>3. \A u \in Thread : pc[u] = "submitted" => job'[u] = job[u]
      BY <1>0, <2>3 DEF TypeOK, Quiet, HandleEvents, TimeoutReturn, CompletedReturn, ReturnToCaller,
             Park, EnterWait, TimedWake, SpuriousWake, Wake, Signal, SignalLocked, FillTransfer,
             RunCallback, local
    <3> QED BY <3>1, <3>2, <3>3, StillQueues
  <2> QED BY <1>3, <2>1, <2>2, <2>3 DEF ThreadStep, TakeStep, Quiet
<1>4. ASSUME NEW x \in Transfer, CancelTransfer(x) PROVE QueuesInv'
  <2>1. UNCHANGED <<inflight, addedAt, adds, prepared, ongoing, jsCalls, jsStart, results,
                    outResults, job>>
    BY <1>4 DEF CancelTransfer, storage, answers, js, local
  <2>2. \A u \in Thread : (pc'[u] = "submitted") <=> (pc[u] = "submitted")
    BY <1>4 DEF CancelTransfer, Notified
  <2> QED BY <2>1, <2>2, StillQueues
<1>5. ASSUME NEW x \in Transfer, JsAnswers(x) PROVE QueuesInv'
  <2>1. DestOf[x] \in Dest
    BY TransferAssumption
  <2> QED BY <1>5, <2>1, JsAnswersQueues
<1>6. CASE JsStartsNext
  <2>1. jsStart \in Dest
    BY <1>0, <1>6 DEF TypeOK, JsStartsNext
  <2> QED BY <1>6, <2>1, JsStartsNextQueues
<1>7. CASE Tick
  <2>1. UNCHANGED <<inflight, addedAt, adds, prepared, ongoing, jsCalls, jsStart, results,
                    outResults, pc, job>>
    BY <1>7 DEF Tick, storage, answers, js, local
  <2> QED BY <2>1, StillQueues
<1> QED BY <1>1, <1>2, <1>3, <1>4, <1>5, <1>6, <1>7 DEF Next

LEMMA QueuesInductive == Spec => [](IInv /\ QueuesInv)
<1>1. IInv /\ QueuesInv /\ [Next]_vars => QueuesInv'
  BY NextQueues
<1> QED BY <1>1, Inductive, QueuesInitially, PTL DEF Spec

-----------------------------------------------------------------------------
(* Nothing is stranded                                                     *)

LEMMA SomeSize ==
  ASSUME NEW S, IsFiniteSet(S), NEW x \in S
  PROVE  Cardinality(S) \in Nat /\ Cardinality(S) >= 1
<1>1. Cardinality(S) \in Nat /\ (Cardinality(S) = 0 <=> S = {})
  BY FS_CardinalityType, FS_EmptySet
<1> QED BY <1>1

\* Between RemoveTransferInFlight, which may drop a prepared call, and the threads
\* that start whatever comes first, no output transfer is left without a call,
\* without a result and without somebody to start its call.
THEOREM NoOutputStranded == Spec => []NoStrandedOutput
<1>1. IInv /\ QueuesInv => NoStrandedOutput
  <2> SUFFICES ASSUME IInv, QueuesInv, NEW x \in inflight, ~IsInput(DestOf[x]),
                      x \in prepared, NEW d, d = DestOf[x]
               PROVE  Starting(d)
    BY DEF NoStrandedOutput, QueuesInv, OutputsAccounted
  <2>0. TypeOK /\ d \in Dest \ InputDest
    BY TransferAssumption DEF IInv, LifeInv, TypeOK, IsInput
  <2>1. Cardinality(PreparedOn(d)) >= 1 /\ Cardinality(PreparedOn(d)) \in Nat
    BY <2>0, Sizes, SomeSize DEF QueuesInv, PreparedOn
  <2>2. /\ Cardinality(PreparedOn(d)) <= Cardinality(Starters(d)) + FromPage(d)
        /\ Cardinality(Starters(d)) \in Nat
    BY <2>0, Sizes DEF QueuesInv, StartersSuffice
  <2>3. CASE jsStart = d
    BY <2>3 DEF Starting
  <2>4. CASE jsStart # d
    <3>1. Cardinality(Starters(d)) # 0
      BY <2>1, <2>2, <2>4 DEF FromPage
    <3>2. Starters(d) # {}
      BY <3>1, FS_EmptySet
    <3> QED BY <3>2 DEF Starters, Starting
  <2> QED BY <2>3, <2>4
<1> QED BY <1>1, QueuesInductive, PTL

\* However answers, timeouts and cancellations unbalance calls and transfers, an
\* input transfer in flight has a call of its destination running, an answer in
\* stock, or somebody about to start a call.
THEOREM NoInputStranded == Spec => []NoStrandedInput
<1>1. IInv /\ QueuesInv => NoStrandedInput
  <2> SUFFICES ASSUME IInv, QueuesInv, NEW x \in inflight, NEW d, d = DestOf[x], IsInput(d)
               PROVE  d \in ongoing \/ results[d] # <<>> \/ Starting(d)
    BY DEF NoStrandedInput
  <2>0. TypeOK /\ d \in Dest /\ d \in InputDest
    BY TransferAssumption DEF IInv, LifeInv, TypeOK, IsInput
  <2>1. CASE x \in prepared
    BY <2>0, <2>1 DEF QueuesInv, InputsStarting, PreparedOn
  <2>2. CASE x \notin prepared
    <3>1. x \in StartedOn(d) /\ IsFiniteSet(StartedOn(d))
      BY <2>0, <2>2, Sizes DEF QueuesInv, StartedOn, InFlightOn
    <3>2. Cardinality(StartedOn(d)) >= 1 /\ Cardinality(StartedOn(d)) \in Nat
      BY <3>1, SomeSize
    <3>3. Cardinality(StartedOn(d)) <= Len(results[d]) + Running(d)
      BY <2>0 DEF QueuesInv, InputsBalanced
    <3>4. ASSUME results[d] = <<>>, d \notin ongoing PROVE FALSE
      <4>1. Len(results[d]) = 0 /\ Running(d) = 0
        BY <3>4 DEF Running
      <4> QED BY <3>2, <3>3, <4>1
    <3> QED BY <3>4
  <2> QED BY <2>1, <2>2
<1> QED BY <1>1, QueuesInductive, PTL

-----------------------------------------------------------------------------
(* The order of answers                                                    *)

\* The answer to the call of c was given to x.
GivenTo(c, x) ==
  \/ status[x] = "answered" /\ answeredBy[x] = c
  \/ \E t \in Thread : taken[t] = [transfer |-> x, status |-> "answered", call |-> c]

GivenInput(c, x) == IsInput(DestOf[x]) /\ GivenTo(c, x)

Before(x, y) == addedAt[x] < addedAt[y]

\* The answer to e's call waits at destination d, or is still to come.
Stocked(e, d) == \E i \in DOMAIN results[d] : results[d][i] = e
Outstanding(e, d) == DestOf[e] = d /\ (e \in jsCalls \/ e \in prepared)

StockOrdered ==
  \A d \in InputDest :
    /\ \A i \in DOMAIN results[d] : results[d][i] \in Submitted
    /\ \A i, j \in DOMAIN results[d] : i < j => Before(results[d][i], results[d][j])

StockFirst ==
  \A d \in InputDest, c, e \in Transfer : Stocked(c, d) /\ Outstanding(e, d) => Before(c, e)

CallsFirst ==
  \A c \in jsCalls, e \in prepared : IsInput(DestOf[e]) /\ DestOf[c] = DestOf[e] => Before(c, e)

\* What a transfer was given precedes all that is left, as it does itself.
GivenFirst ==
  \A x \in Transfer, c \in Transfer \union {NoTransfer} : GivenInput(c, x) =>
    /\ c \in Submitted /\ x \in Submitted
    /\ \A y \in inflight : DestOf[y] = DestOf[x] => Before(x, y)
    /\ \A e \in Transfer : Stocked(e, DestOf[x]) \/ Outstanding(e, DestOf[x]) => Before(c, e)

GivenInOrder ==
  \A x, y \in Transfer, c, e \in Transfer \union {NoTransfer} :
    GivenInput(c, x) /\ GivenInput(e, y) /\ DestOf[x] = DestOf[y] /\ Before(x, y) => Before(c, e)

OrderInv == StockOrdered /\ StockFirst /\ CallsFirst /\ GivenFirst /\ GivenInOrder

LEMMA OrderInitially == Init => OrderInv
<1> SUFFICES ASSUME Init PROVE OrderInv
  OBVIOUS
<1>1. /\ jsCalls = {} /\ prepared = {}
      /\ \A d \in InputDest : results[d] = <<>>
      /\ \A x \in Transfer : status[x] = "none"
      /\ \A t \in Thread : taken[t].status = "none"
  BY DEF Init, NothingTaken
<1>2. \A d \in InputDest : DOMAIN results[d] = {}
  BY <1>1
<1>3. ASSUME NEW x \in Transfer, NEW c PROVE ~GivenTo(c, x)
  BY <1>1 DEF GivenTo
<1> QED BY <1>1, <1>2, <1>3 DEF OrderInv, StockOrdered, StockFirst, CallsFirst, GivenFirst,
                               GivenInOrder, GivenInput, Stocked

\* Nothing is given, stocked or started; what is in flight or to come may get less.
LEMMA StillOrdered ==
  ASSUME OrderInv, UNCHANGED <<addedAt, results>>,
         inflight' \subseteq inflight, prepared' \subseteq prepared, jsCalls' \subseteq jsCalls,
         \A x \in Transfer, c \in Transfer \union {NoTransfer} : GivenInput(c, x)' => GivenInput(c, x)
  PROVE  OrderInv'
<1>1. /\ \A c, e : Before(c, e)' = Before(c, e)
      /\ \A e, d : /\ Stocked(e, d)' = Stocked(e, d)
                   /\ Outstanding(e, d)' => Outstanding(e, d)
      /\ Submitted' = Submitted
  BY DEF Before, Stocked, Outstanding, Submitted
<1>2. StockOrdered' /\ CallsFirst'
  BY <1>1 DEF OrderInv, StockOrdered, CallsFirst
<1>3. StockFirst'
  BY <1>1 DEF OrderInv, StockFirst
<1>4. GivenFirst'
  BY <1>1 DEF OrderInv, GivenFirst
<1>5. GivenInOrder'
  BY <1>1 DEF OrderInv, GivenInOrder
<1> QED BY <1>2, <1>3, <1>4, <1>5 DEF OrderInv

\* A new transfer comes after everything.
LEMMA SubmitOrdered ==
  ASSUME IInv, QueuesInv, OrderInv, NEW t \in Client, NEW x \in Transfer, Submit(t, x)
  PROVE  OrderInv'
<1>0. TypeOK
  BY DEF IInv, LifeInv
<1>1. /\ x \notin Submitted /\ Submitted' = Submitted \union {x}
      /\ addedAt'[x] = adds + 1 /\ \A y \in Transfer : y # x => addedAt'[y] = addedAt[y]
      /\ adds \in Nat /\ \A y \in Transfer : addedAt[y] \in Nat
  BY <1>0 DEF Submit, AddTransferInFlight, Submitted, TypeOK
<1>2. /\ inflight' = inflight \union {x} /\ prepared' = prepared \union {x}
      /\ UNCHANGED <<jsCalls, results, status, answeredBy, taken>>
  BY DEF Submit, AddTransferInFlight, answers, js, objects
<1>3. \A c \in Submitted : c \in Transfer /\ Before(c, x)' /\ \A e \in Transfer : Before(c, e) => Before(c, e)'
  <2> SUFFICES ASSUME NEW c \in Submitted
               PROVE  c \in Transfer /\ Before(c, x)' /\ \A e \in Transfer : Before(c, e) => Before(c, e)'
    OBVIOUS
  <2>1. c \in Transfer /\ c # x /\ addedAt[c] <= adds
    BY <1>1 DEF Submitted, QueuesInv, Positions
  <2>2. Before(c, x)'
    BY <1>1, <2>1 DEF Before
  <2>3. ASSUME NEW e \in Transfer, Before(c, e) PROVE Before(c, e)'
    <3>1. CASE e = x
      BY <2>2, <3>1
    <3>2. CASE e # x
      BY <1>1, <2>1, <2>3, <3>2 DEF Before
    <3> QED BY <3>1, <3>2
  <2> QED BY <2>1, <2>2, <2>3
<1>4. /\ \A e, d : /\ Stocked(e, d)' = Stocked(e, d)
                   /\ Outstanding(e, d)' => Outstanding(e, d) \/ e = x
      /\ \A c, y : GivenInput(c, y)' = GivenInput(c, y)
  BY <1>2 DEF Stocked, Outstanding, GivenInput, GivenTo
<1>5. StockOrdered'
  <2> SUFFICES ASSUME NEW d \in InputDest
               PROVE  /\ \A i \in DOMAIN results[d] : results[d][i] \in Submitted'
                      /\ \A i, j \in DOMAIN results[d] : i < j => Before(results[d][i], results[d][j])'
    BY <1>2 DEF StockOrdered
  <2>1. /\ \A i \in DOMAIN results[d] : results[d][i] \in Submitted
        /\ \A i, j \in DOMAIN results[d] : i < j => Before(results[d][i], results[d][j])
    BY DEF OrderInv, StockOrdered
  <2>2. \A y \in Submitted : y \in Transfer /\ y # x /\ addedAt'[y] = addedAt[y]
    BY <1>1 DEF Submitted
  <2> QED BY <1>1, <1>2, <2>1, <2>2 DEF Before
<1>6. StockFirst'
  <2> SUFFICES ASSUME NEW d \in InputDest, NEW c \in Transfer, NEW e \in Transfer,
                      Stocked(c, d), Outstanding(e, d)'
               PROVE  Before(c, e)'
    BY <1>4 DEF StockFirst
  <2>1. c \in Submitted
    BY DEF OrderInv, StockOrdered, Stocked
  <2> QED BY <1>3, <1>4, <2>1 DEF OrderInv, StockFirst
<1>7. CallsFirst'
  <2>1. jsCalls \subseteq Submitted /\ prepared \subseteq Transfer
    BY <1>0 DEF IInv, CallInv, CallMade, TypeOK
  <2> QED BY <1>2, <1>3, <2>1 DEF OrderInv, CallsFirst
<1>8. GivenFirst'
  <2> SUFFICES ASSUME NEW y \in Transfer, NEW c \in Transfer \union {NoTransfer}, GivenInput(c, y)
               PROVE  /\ c \in Submitted' /\ y \in Submitted'
                      /\ \A z \in inflight' : DestOf[z] = DestOf[y] => Before(y, z)'
                      /\ \A e \in Transfer : Stocked(e, DestOf[y])' \/ Outstanding(e, DestOf[y])'
                                               => Before(c, e)'
    BY <1>4 DEF GivenFirst
  <2>1. /\ c \in Submitted /\ y \in Submitted
        /\ \A z \in inflight : DestOf[z] = DestOf[y] => Before(y, z)
        /\ \A e \in Transfer : Stocked(e, DestOf[y]) \/ Outstanding(e, DestOf[y]) => Before(c, e)
    BY DEF OrderInv, GivenFirst
  <2>2. inflight \subseteq Transfer
    BY <1>0 DEF TypeOK
  <2>3. \A z \in inflight' : DestOf[z] = DestOf[y] => Before(y, z)'
    BY <1>2, <1>3, <2>1, <2>2
  <2>4. \A e \in Transfer : Stocked(e, DestOf[y])' \/ Outstanding(e, DestOf[y])' => Before(c, e)'
    BY <1>3, <1>4, <2>1
  <2> QED BY <1>1, <2>1, <2>3, <2>4
<1>9. GivenInOrder'
  <2> SUFFICES ASSUME NEW y \in Transfer, NEW z \in Transfer,
                      NEW c \in Transfer \union {NoTransfer}, NEW e \in Transfer \union {NoTransfer},
                      GivenInput(c, y), GivenInput(e, z), DestOf[y] = DestOf[z], Before(y, z)'
               PROVE  Before(c, e)'
    BY <1>4 DEF GivenInOrder
  <2>1. c \in Submitted /\ y \in Submitted /\ e \in Submitted /\ z \in Submitted
    BY DEF OrderInv, GivenFirst
  <2>2. Before(y, z)
    BY <1>1, <2>1 DEF Before
  <2>3. Before(c, e)
    BY <2>2 DEF OrderInv, GivenInOrder
  <2> QED BY <1>3, <2>1, <2>3
<1> QED BY <1>5, <1>6, <1>7, <1>8, <1>9 DEF OrderInv

\* A call starts for the transfer of its destination that was added first.
LEMMA StartOrdered ==
  ASSUME IInv, QueuesInv, OrderInv, NEW d \in Dest, StartJsCall(d),
         UNCHANGED <<inflight, addedAt, results, status, answeredBy, taken>>
  PROVE  OrderInv'
<1>0. TypeOK /\ prepared \subseteq Submitted /\ jsCalls \subseteq Transfer
  BY DEF IInv, LifeInv, TypeOK, ExactlyOnce
<1>1. /\ \A c, e : Before(c, e)' = Before(c, e)
      /\ \A e, f : Stocked(e, f)' = Stocked(e, f)
      /\ \A c, y : GivenInput(c, y)' = GivenInput(c, y)
      /\ Submitted' = Submitted
  BY DEF Before, Stocked, GivenInput, GivenTo, Submitted
<1>2. \A e, f : Outstanding(e, f)' => Outstanding(e, f)
  BY DEF Outstanding, StartJsCall, IsFirst
<1>3. CallsFirst'
  <2>1. CASE UNCHANGED <<prepared, jsCalls>>
    BY <1>1, <2>1 DEF OrderInv, CallsFirst
  <2>2. ASSUME NEW x \in prepared, DestOf[x] = d,
               \A y \in prepared : DestOf[y] = d => addedAt[x] <= addedAt[y],
               prepared' = prepared \ {x}, jsCalls' = jsCalls \union {x}
        PROVE  CallsFirst'
    <3> SUFFICES ASSUME NEW c \in jsCalls', NEW e \in prepared',
                        IsInput(DestOf[e]), DestOf[c] = DestOf[e]
                 PROVE  Before(c, e)
      BY <1>1 DEF CallsFirst
    <3>1. CASE c \in jsCalls
      BY <2>2, <3>1 DEF OrderInv, CallsFirst
    <3>2. CASE c = x
      <4>1. addedAt[x] <= addedAt[e] /\ addedAt[x] # addedAt[e]
        BY <1>0, <2>2, <3>2 DEF QueuesInv, Positions
      <4>2. addedAt[x] \in Nat /\ addedAt[e] \in Nat
        BY <1>0, <2>2 DEF TypeOK, Submitted
      <4> QED BY <3>2, <4>1, <4>2 DEF Before
    <3> QED BY <2>2, <3>1, <3>2
  <2> QED BY <2>1, <2>2 DEF StartJsCall, IsFirst
<1>4. StockOrdered' /\ StockFirst'
  BY <1>1, <1>2 DEF OrderInv, StockOrdered, StockFirst
<1>5. GivenFirst'
  BY <1>1, <1>2 DEF OrderInv, GivenFirst
<1>6. GivenInOrder'
  BY <1>1 DEF OrderInv, GivenInOrder
<1> QED BY <1>3, <1>4, <1>5, <1>6 DEF OrderInv

\* The answer of the destination's only call joins the stock: it comes after the
\* answers in stock and before the calls not started yet.
LEMMA InputAnswered ==
  ASSUME IInv, QueuesInv, OrderInv, NEW x \in Transfer, JsAnswersInput(x), NEW d, d = DestOf[x]
  PROVE  OrderInv'
<1>0. TypeOK /\ d \in InputDest /\ IsInput(d)
  BY DEF IInv, LifeInv, JsAnswersInput, IsInput
<1>1. /\ x \in jsCalls /\ jsCalls' = jsCalls \ {x}
      /\ UNCHANGED <<inflight, addedAt, prepared, status, answeredBy, taken>>
      /\ results'[d] = Append(results[d], x)
      /\ \A f \in InputDest : f # d => results'[f] = results[f]
  BY <1>0 DEF JsAnswersInput, storage, objects, TypeOK
<1>2. results[d] \in Seq(Transfer)
  BY <1>0 DEF TypeOK
<1>3. /\ Len(results'[d]) = Len(results[d]) + 1 /\ Len(results[d]) \in Nat
      /\ DOMAIN results[d] = 1 .. Len(results[d]) /\ DOMAIN results'[d] = 1 .. (Len(results[d]) + 1)
      /\ \A i \in DOMAIN results[d] : results'[d][i] = results[d][i]
      /\ results'[d][Len(results[d]) + 1] = x
  BY <1>1, <1>2
<1>4. x \in Submitted /\ Outstanding(x, d) /\ Submitted' = Submitted
  BY <1>1 DEF IInv, CallInv, CallMade, Outstanding, Submitted
<1>5. /\ \A c, e : Before(c, e)' = Before(c, e)
      /\ \A c, y : GivenInput(c, y)' = GivenInput(c, y)
      /\ \A e, f : Outstanding(e, f)' => Outstanding(e, f)
  BY <1>1 DEF Before, GivenInput, GivenTo, Outstanding
<1>6. /\ \A e : \A f \in InputDest : f # d => Stocked(e, f)' = Stocked(e, f)
      /\ \A e : Stocked(e, d)' => Stocked(e, d) \/ e = x
  <2>1. \A e : \A f \in InputDest : f # d => Stocked(e, f)' = Stocked(e, f)
    BY <1>1 DEF Stocked
  <2>2. ASSUME NEW e, NEW i \in DOMAIN results'[d], results'[d][i] = e
        PROVE  Stocked(e, d) \/ e = x
    <3>1. i \in DOMAIN results[d] \/ i = Len(results[d]) + 1
      BY <1>3, <2>2
    <3> QED BY <1>3, <2>2, <3>1 DEF Stocked
  <2> QED BY <2>1, <2>2 DEF Stocked
<1>7. StockOrdered'
  <2> SUFFICES ASSUME NEW f \in InputDest
               PROVE  /\ \A i \in DOMAIN results'[f] : results'[f][i] \in Submitted
                      /\ \A i, j \in DOMAIN results'[f] : i < j => Before(results'[f][i], results'[f][j])
    BY <1>4, <1>5 DEF StockOrdered
  <2>1. /\ \A i \in DOMAIN results[f] : results[f][i] \in Submitted
        /\ \A i, j \in DOMAIN results[f] : i < j => Before(results[f][i], results[f][j])
    BY DEF OrderInv, StockOrdered
  <2>2. CASE f # d
    BY <1>1, <2>1, <2>2
  <2>3. CASE f = d
    <3>1. ASSUME NEW i \in DOMAIN results'[d] PROVE results'[d][i] \in Submitted
      <4>1. i \in DOMAIN results[d] \/ i = Len(results[d]) + 1
        BY <1>3, <3>1
      <4> QED BY <1>3, <1>4, <2>1, <2>3, <4>1
    <3>2. ASSUME NEW i \in DOMAIN results'[d], NEW j \in DOMAIN results'[d], i < j
          PROVE  Before(results'[d][i], results'[d][j])
      <4>1. i \in DOMAIN results[d]
        BY <1>3, <3>2
      <4>2. CASE j \in DOMAIN results[d]
        BY <1>3, <2>1, <2>3, <3>2, <4>1, <4>2
      <4>3. CASE j \notin DOMAIN results[d]
        <5>1. j = Len(results[d]) + 1
          BY <1>3, <4>3
        <5>2. Stocked(results[d][i], d) /\ results[d][i] \in Transfer
          BY <1>2, <4>1 DEF Stocked
        <5>3. Before(results[d][i], x)
          BY <1>0, <1>4, <5>2 DEF OrderInv, StockFirst
        <5> QED BY <1>3, <4>1, <5>1, <5>3
      <4> QED BY <4>2, <4>3
    <3> QED BY <2>3, <3>1, <3>2
  <2> QED BY <2>2, <2>3
<1>8. StockFirst'
  <2> SUFFICES ASSUME NEW f \in InputDest, NEW c \in Transfer, NEW e \in Transfer,
                      Stocked(c, f)', Outstanding(e, f)'
               PROVE  Before(c, e)
    BY <1>5 DEF StockFirst
  <2>1. CASE Stocked(c, f)
    BY <1>5, <2>1 DEF OrderInv, StockFirst
  <2>2. CASE f = d /\ c = x
    <3>1. e # x
      <4>1. x \notin prepared
        BY <1>1 DEF IInv, CallInv, CallMade
      <4> QED BY <1>1, <4>1 DEF Outstanding
    <3>2. DestOf[e] = d /\ (e \in jsCalls \/ e \in prepared)
      BY <1>1, <2>2 DEF Outstanding
    <3>3. e \in prepared
      BY <1>0, <1>1, <3>1, <3>2 DEF IInv, CallInv, OneCallPerInput
    <3> QED BY <1>0, <1>1, <2>2, <3>2, <3>3 DEF OrderInv, CallsFirst
  <2> QED BY <1>6, <2>1, <2>2
<1>9. CallsFirst' /\ GivenInOrder'
  BY <1>1, <1>5 DEF OrderInv, CallsFirst, GivenInOrder
<1>10. GivenFirst'
  <2> SUFFICES ASSUME NEW y \in Transfer, NEW c \in Transfer \union {NoTransfer}, GivenInput(c, y),
                      NEW f \in InputDest, f = DestOf[y]
               PROVE  /\ c \in Submitted /\ y \in Submitted
                      /\ \A z \in inflight : DestOf[z] = f => Before(y, z)
                      /\ \A e \in Transfer : Stocked(e, f)' \/ Outstanding(e, f)' => Before(c, e)
    BY <1>1, <1>4, <1>5 DEF GivenFirst, GivenInput, IsInput
  <2>1. /\ c \in Submitted /\ y \in Submitted
        /\ \A z \in inflight : DestOf[z] = f => Before(y, z)
        /\ \A e \in Transfer : Stocked(e, f) \/ Outstanding(e, f) => Before(c, e)
    BY DEF OrderInv, GivenFirst
  <2> QED BY <1>4, <1>5, <1>6, <2>1
<1> QED BY <1>7, <1>8, <1>9, <1>10 DEF OrderInv

\* The first answer in stock is given to the first transfer in flight.
LEMMA InputTaken ==
  ASSUME IInv, QueuesInv, OrderInv, NEW t \in Thread, NEW d \in InputDest, NEW x \in inflight,
         DestOf[x] = d, IsFirst(x, InFlightOn(d)), results[d] # <<>>, NEW c, c = Head(results[d]),
         Take(t, x, "answered", c), results' = [results EXCEPT ![d] = Tail(@)]
  PROVE  OrderInv'
<1>0. TypeOK /\ x \in Transfer /\ x \in Submitted /\ inflight \subseteq Submitted
  BY DEF IInv, LifeInv, TypeOK, ExactlyOnce
<1>1. /\ inflight' = inflight \ {x} /\ prepared' = prepared \ {x}
      /\ UNCHANGED <<addedAt, jsCalls, status, answeredBy>>
  BY DEF Take, RemoveTransferInFlight, js, objects
<1>2. results[d] \in Seq(Transfer) /\ c \in Transfer /\ Tail(results[d]) \in Seq(Transfer)
  BY <1>0, TailType DEF TypeOK
<1>3. /\ results'[d] = Tail(results[d]) /\ c = results[d][1] /\ 1 \in DOMAIN results[d]
      /\ Len(Tail(results[d])) = Len(results[d]) - 1 /\ Len(results[d]) \in Nat \ {0}
      /\ DOMAIN results[d] = 1 .. Len(results[d])
      /\ DOMAIN Tail(results[d]) = 1 .. (Len(results[d]) - 1)
      /\ \A i \in DOMAIN Tail(results[d]) : Tail(results[d])[i] = results[d][i + 1]
      /\ \A f \in InputDest : f # d => results'[f] = results[f]
  BY <1>0, <1>2 DEF TypeOK
<1>4. Stocked(c, d) /\ c \in Submitted
  BY <1>3 DEF Stocked, OrderInv, StockOrdered
<1>5. /\ \A e, f : Before(e, f)' = Before(e, f)
      /\ \A e, f : Outstanding(e, f)' => Outstanding(e, f)
      /\ Submitted' = Submitted
  BY <1>1 DEF Before, Outstanding, Submitted
<1>6. /\ \A e : \A f \in InputDest : Stocked(e, f)' => Stocked(e, f)
      /\ \A e : Stocked(e, d)' => Before(c, e)
  <2>1. ASSUME NEW i \in DOMAIN Tail(results[d])
        PROVE  Stocked(Tail(results[d])[i], d) /\ Before(c, Tail(results[d])[i])
    <3>1. i \in Nat /\ 1 < i + 1 /\ i + 1 \in DOMAIN results[d]
      BY <1>3, <2>1
    <3>2. Before(results[d][1], results[d][i + 1])
      BY <1>3, <3>1 DEF OrderInv, StockOrdered
    <3> QED BY <1>3, <3>1, <3>2 DEF Stocked
  <2>2. ASSUME NEW e, Stocked(e, d)' PROVE Stocked(e, d) /\ Before(c, e)
    <3>1. PICK i \in DOMAIN results'[d] : results'[d][i] = e
      BY <2>2 DEF Stocked
    <3>2. i \in DOMAIN Tail(results[d]) /\ Tail(results[d])[i] = e
      BY <1>3, <3>1
    <3> QED BY <2>1, <3>2
  <2>3. \A e : \A f \in InputDest : f # d => (Stocked(e, f)' => Stocked(e, f))
    BY <1>3 DEF Stocked
  <2> QED BY <2>2, <2>3
<1>7. StockOrdered'
  <2> SUFFICES ASSUME NEW f \in InputDest
               PROVE  /\ \A i \in DOMAIN results'[f] : results'[f][i] \in Submitted
                      /\ \A i, j \in DOMAIN results'[f] : i < j => Before(results'[f][i], results'[f][j])
    BY <1>5 DEF StockOrdered
  <2>1. /\ \A i \in DOMAIN results[f] : results[f][i] \in Submitted
        /\ \A i, j \in DOMAIN results[f] : i < j => Before(results[f][i], results[f][j])
    BY DEF OrderInv, StockOrdered
  <2>2. CASE f # d
    BY <1>3, <2>1, <2>2
  <2>3. CASE f = d
    <3>1. \A i \in DOMAIN Tail(results[d]) : i \in Nat /\ i + 1 \in DOMAIN results[d]
      BY <1>3
    <3>2. \A i, j \in Nat : i < j => i + 1 < j + 1
      OBVIOUS
    <3>3. \A i \in DOMAIN Tail(results[d]) : Tail(results[d])[i] \in Submitted
      BY <1>3, <2>1, <2>3, <3>1
    <3>4. ASSUME NEW i \in DOMAIN Tail(results[d]), NEW j \in DOMAIN Tail(results[d]), i < j
          PROVE  Before(Tail(results[d])[i], Tail(results[d])[j])
      <4>1. Before(results[d][i + 1], results[d][j + 1])
        BY <2>1, <2>3, <3>1, <3>2, <3>4
      <4> QED BY <1>3, <4>1
    <3> QED BY <1>3, <2>3, <3>3, <3>4
  <2> QED BY <2>2, <2>3
<1>8. StockFirst'
  BY <1>5, <1>6 DEF OrderInv, StockFirst
<1>9. CallsFirst'
  BY <1>1, <1>5 DEF OrderInv, CallsFirst
<1>10. \A y \in inflight' : DestOf[y] = d => Before(x, y)
  <2> SUFFICES ASSUME NEW y \in inflight', DestOf[y] = d PROVE Before(x, y)
    OBVIOUS
  <2>1. y \in inflight /\ y # x /\ y \in Submitted /\ addedAt[x] <= addedAt[y]
    BY <1>0, <1>1 DEF IsFirst, InFlightOn
  <2>2. addedAt[x] # addedAt[y] /\ addedAt[x] \in Nat /\ addedAt[y] \in Nat
    BY <1>0, <2>1 DEF QueuesInv, Positions, Submitted, TypeOK
  <2> QED BY <2>1, <2>2 DEF Before
<1>11. \A e \in Transfer : Stocked(e, d)' \/ Outstanding(e, d)' => Before(c, e)
  BY <1>2, <1>4, <1>5, <1>6 DEF OrderInv, StockFirst
<1>12. \A y \in Transfer, e \in Transfer \union {NoTransfer} :
         GivenInput(e, y)' => GivenInput(e, y) \/ (y = x /\ e = c)
  <2> SUFFICES ASSUME NEW y \in Transfer, NEW e \in Transfer \union {NoTransfer}, GivenInput(e, y)',
                      ~(y = x /\ e = c)
               PROVE  GivenInput(e, y)
    OBVIOUS
  <2>1. taken'[t] = [transfer |-> x, status |-> "answered", call |-> c]
        /\ \A u \in Thread : u # t => taken'[u] = taken[u]
    BY <1>0 DEF Take, TypeOK
  <2>2. taken'[t] # [transfer |-> y, status |-> "answered", call |-> e]
    BY <2>1
  <2> QED BY <1>1, <2>1, <2>2 DEF GivenInput, GivenTo
<1>13. ASSUME NEW y \in Transfer, NEW e \in Transfer \union {NoTransfer}, GivenInput(e, y)
       PROVE  /\ e \in Submitted /\ y \in Submitted
              /\ \A z \in inflight : DestOf[z] = DestOf[y] => Before(y, z)
              /\ \A z \in Transfer : Stocked(z, DestOf[y]) \/ Outstanding(z, DestOf[y]) => Before(e, z)
              /\ DestOf[y] \in InputDest
  BY <1>13 DEF OrderInv, GivenFirst, GivenInput, IsInput
<1>14. GivenFirst'
  <2> SUFFICES ASSUME NEW y \in Transfer, NEW e \in Transfer \union {NoTransfer}, GivenInput(e, y)'
               PROVE  /\ e \in Submitted /\ y \in Submitted
                      /\ \A z \in inflight' : DestOf[z] = DestOf[y] => Before(y, z)
                      /\ \A z \in Transfer : Stocked(z, DestOf[y])' \/ Outstanding(z, DestOf[y])'
                                               => Before(e, z)
    BY <1>5 DEF GivenFirst
  <2>1. CASE GivenInput(e, y)
    BY <1>1, <1>5, <1>6, <1>13, <2>1
  <2>2. CASE y = x /\ e = c
    BY <1>0, <1>4, <1>10, <1>11, <2>2
  <2> QED BY <1>12, <2>1, <2>2
<1>15. GivenInOrder'
  <2> SUFFICES ASSUME NEW y \in Transfer, NEW z \in Transfer,
                      NEW e \in Transfer \union {NoTransfer}, NEW f \in Transfer \union {NoTransfer},
                      GivenInput(e, y)', GivenInput(f, z)', DestOf[y] = DestOf[z], Before(y, z)
               PROVE  Before(e, f)
    BY <1>5 DEF GivenInOrder
  <2>0. \A v \in Transfer : ~Before(v, v) /\ \A w \in Transfer : ~(Before(v, w) /\ Before(w, v))
    <3>1. \A a, b \in Nat : ~(a < a) /\ ~(a < b /\ b < a)
      OBVIOUS
    <3>2. \A v \in Transfer : addedAt[v] \in Nat
      BY <1>0 DEF TypeOK
    <3> QED BY <3>1, <3>2 DEF Before
  <2>1. CASE GivenInput(e, y) /\ GivenInput(f, z)
    BY <2>1 DEF OrderInv, GivenInOrder
  <2>2. CASE GivenInput(e, y) /\ z = x /\ f = c
    BY <1>2, <1>4, <1>13, <2>2
  <2>3. CASE y = x /\ e = c /\ GivenInput(f, z)
    <3>1. Before(z, x)
      BY <1>13, <2>3
    <3> QED BY <1>0, <2>0, <2>3, <3>1
  <2>4. CASE y = x /\ z = x
    BY <1>0, <2>0, <2>4
  <2> QED BY <1>12, <2>1, <2>2, <2>3, <2>4
<1> QED BY <1>7, <1>8, <1>9, <1>14, <1>15 DEF OrderInv

\* Any other transfer leaves the context without an input answer.
LEMMA OtherTaken ==
  ASSUME IInv, OrderInv, NEW t \in Thread, NEW x \in inflight, NEW outcome, NEW call,
         Take(t, x, outcome, call), results' = results,
         outcome # "answered" \/ ~IsInput(DestOf[x])
  PROVE  OrderInv'
<1>0. TypeOK
  BY DEF IInv, LifeInv
<1>1. /\ inflight' = inflight \ {x} /\ prepared' = prepared \ {x}
      /\ UNCHANGED <<addedAt, jsCalls, status, answeredBy>>
  BY DEF Take, RemoveTransferInFlight, js, objects
<1>2. ASSUME NEW y \in Transfer, NEW e \in Transfer \union {NoTransfer}, GivenInput(e, y)'
      PROVE  GivenInput(e, y)
  <2>1. taken'[t] = [transfer |-> x, status |-> outcome, call |-> call]
        /\ \A u \in Thread : u # t => taken'[u] = taken[u]
    BY <1>0 DEF Take, TypeOK
  <2>2. IsInput(DestOf[y])
    BY <1>2 DEF GivenInput
  <2>3. taken'[t] # [transfer |-> y, status |-> "answered", call |-> e]
    BY <2>1, <2>2
  <2> QED BY <1>1, <1>2, <2>1, <2>3 DEF GivenInput, GivenTo
<1> QED BY <1>1, <1>2, StillOrdered

LEMMA TakeStepOrdered ==
  ASSUME IInv, QueuesInv, OrderInv, NEW t \in Thread, TakeStep(t)
  PROVE  OrderInv'
<1>0. /\ toCancel \subseteq inflight /\ outResults \subseteq inflight
      /\ \A x \in outResults : ~IsInput(DestOf[x])
  BY DEF IInv, LifeInv, CancellationPrecedes, CallInv, OutputResultsInFlight
<1>1. CASE TakeCancelled(t)
  BY <1>0, <1>1, OtherTaken DEF TakeCancelled
<1>2. CASE TakeTimedOut(t)
  BY <1>2, OtherTaken DEF TakeTimedOut
<1>3. CASE TakeOutputResult(t)
  BY <1>0, <1>3, OtherTaken DEF TakeOutputResult
<1>4. CASE TakeInputResult(t)
  <2>1. PICK d \in InputDest, x \in inflight :
          /\ results[d] # <<>> /\ IsFirst(x, InFlightOn(d)) /\ DestOf[x] = d
          /\ Take(t, x, "answered", Head(results[d]))
          /\ results' = [results EXCEPT ![d] = Tail(@)]
    BY <1>4 DEF TakeInputResult, InFlightOn
  <2> QED BY <2>1, InputTaken
<1> QED BY <1>1, <1>2, <1>3, <1>4 DEF TakeStep

\* A thread writes down what it carries in the transfer,
LEMMA FillTransferOrdered ==
  ASSUME IInv, OrderInv, NEW t \in Thread, FillTransfer(t), NEW x, x = taken[t].transfer
  PROVE  OrderInv'
<1>0. TypeOK
  BY DEF IInv, LifeInv
<1>1. UNCHANGED <<inflight, addedAt, prepared, jsCalls, results, taken>>
  BY DEF FillTransfer, storage, js, answers
<1>2. ASSUME NEW y \in Transfer, NEW e \in Transfer \union {NoTransfer}, GivenInput(e, y)'
      PROVE  GivenInput(e, y)
  <2>1. /\ IsInput(DestOf[y])
        /\ \/ status'[y] = "answered" /\ answeredBy'[y] = e
           \/ \E u \in Thread : taken[u] = [transfer |-> y, status |-> "answered", call |-> e]
    BY <1>1, <1>2 DEF GivenInput, GivenTo
  <2>2. CASE status'[y] = "answered" /\ answeredBy'[y] = e
    <3>1. CASE y = x
      <4>1. status'[y] = taken[t].status /\ answeredBy'[y] = taken[t].call
        BY <1>0, <3>1 DEF FillTransfer, TypeOK
      <4>2. taken[t] \in [transfer : Transfer \union {NoTransfer}, status : Status,
                          call : Transfer \union {NoTransfer}]
        BY <1>0 DEF TypeOK
      <4>3. taken[t] = [transfer |-> y, status |-> "answered", call |-> e]
        BY <2>2, <3>1, <4>1, <4>2
      <4> QED BY <2>1, <4>3 DEF GivenInput, GivenTo
    <3>2. CASE y # x
      <4>1. status'[y] = status[y] /\ answeredBy'[y] = answeredBy[y]
        BY <1>0, <3>2 DEF FillTransfer, TypeOK
      <4> QED BY <2>1, <2>2, <4>1 DEF GivenInput, GivenTo
    <3> QED BY <3>1, <3>2
  <2> QED BY <2>1, <2>2 DEF GivenInput, GivenTo
<1> QED BY <1>1, <1>2, StillOrdered

\* and lets go of it.
LEMMA RunCallbackOrdered ==
  ASSUME IInv, OrderInv, NEW t \in Thread, RunCallback(t)
  PROVE  OrderInv'
<1>0. TypeOK
  BY DEF IInv, LifeInv
<1>1. UNCHANGED <<inflight, addedAt, prepared, jsCalls, results, status, answeredBy>>
  BY DEF RunCallback, storage, js, answers
<1>2. \A u \in Thread : taken'[u] = IF u = t THEN NothingTaken ELSE taken[u]
  BY <1>0 DEF RunCallback, TypeOK
<1>3. \A y, e : NothingTaken # [transfer |-> y, status |-> "answered", call |-> e]
  BY DEF NothingTaken
<1>4. \A y \in Transfer, e \in Transfer \union {NoTransfer} : GivenInput(e, y)' => GivenInput(e, y)
  BY <1>1, <1>2, <1>3 DEF GivenInput, GivenTo
<1> QED BY <1>1, <1>4, StillOrdered

LEMMA NextOrdered == IInv /\ QueuesInv /\ OrderInv /\ [Next]_vars => OrderInv'
<1> SUFFICES ASSUME IInv, QueuesInv, OrderInv, [Next]_vars PROVE OrderInv'
  OBVIOUS
<1>0. TypeOK
  BY DEF IInv, LifeInv
<1>1. ASSUME UNCHANGED <<inflight, addedAt, prepared, results, status, answeredBy, taken>>,
             jsCalls' \subseteq jsCalls
      PROVE  OrderInv'
  <2>1. \A y, e : GivenInput(e, y)' => GivenInput(e, y)
    BY <1>1 DEF GivenInput, GivenTo
  <2> QED BY <1>1, <2>1, StillOrdered
<1>2. CASE UNCHANGED vars \/ Tick \/ \E x \in Transfer : CancelTransfer(x) \/ JsAnswersOutput(x)
  BY <1>1, <1>2 DEF vars, Tick, CancelTransfer, JsAnswersOutput, storage, answers, js, objects
<1>3. ASSUME NEW t \in Client, NEW x \in Transfer, Submit(t, x) PROVE OrderInv'
  BY <1>3, SubmitOrdered
<1>4. ASSUME NEW t \in Thread, ThreadStep(t) \/ SpuriousWake(t) PROVE OrderInv'
  <2>1. CASE MaybeStart(t)
    <3>1. DestOf[job[t]] \in Dest
      BY <2>1, TransferAssumption DEF QueuesInv, Finite, MaybeStart
    <3> QED BY <2>1, <3>1, StartOrdered DEF MaybeStart, answers, objects
  <2>2. CASE TakeStep(t)
    BY <2>2, TakeStepOrdered
  <2>3. CASE Quiet(t)
    BY <1>1, <2>3 DEF Quiet, HandleEvents, TimeoutReturn, CompletedReturn, ReturnToCaller, Park,
           EnterWait, TimedWake, SpuriousWake, Wake, Signal, SignalLocked,
           storage, answers, js, objects
  <2>4. CASE FillTransfer(t) \/ RunCallback(t)
    BY <2>4, FillTransferOrdered, RunCallbackOrdered
  <2> QED BY <1>4, <2>1, <2>2, <2>3, <2>4 DEF ThreadStep, TakeStep, Quiet
<1>5. ASSUME NEW x \in Transfer, JsAnswersInput(x) PROVE OrderInv'
  BY <1>5, InputAnswered
<1>6. CASE JsStartsNext
  <2>1. jsStart \in Dest
    BY <1>0, <1>6 DEF TypeOK, JsStartsNext
  <2> QED BY <1>6, <2>1, StartOrdered DEF JsStartsNext, answers, objects
<1> QED BY <1>2, <1>3, <1>4, <1>5, <1>6 DEF Next, JsAnswers

\* Transfers of one input destination receive its answers in the order in which
\* they were submitted and JavaScript was called: GetWithMinTimeout, a cancellation
\* or an answer in excess may take a transfer out of the queue or leave an answer in
\* it, and none makes two transfers swap their answers or share one.
THEOREM AnswersInOrder == Spec => []FifoAnswers
<1>1. IInv /\ OrderInv => FifoAnswers
  <2> SUFFICES ASSUME IInv, OrderInv, NEW x \in Transfer, NEW y \in Transfer,
                      DestOf[x] = DestOf[y], IsInput(DestOf[x]),
                      status[x] = "answered", status[y] = "answered", addedAt[x] < addedAt[y]
               PROVE  addedAt[answeredBy[x]] < addedAt[answeredBy[y]]
    BY DEF FifoAnswers
  <2>1. answeredBy[x] \in Transfer \union {NoTransfer} /\ answeredBy[y] \in Transfer \union {NoTransfer}
    BY DEF IInv, LifeInv, TypeOK
  <2>2. GivenInput(answeredBy[x], x) /\ GivenInput(answeredBy[y], y)
    BY DEF GivenInput, GivenTo
  <2> QED BY <2>1, <2>2 DEF OrderInv, GivenInOrder, Before
<1>2. IInv /\ QueuesInv /\ OrderInv /\ [Next]_vars => OrderInv'
  BY NextOrdered
<1> QED BY <1>1, <1>2, QueuesInductive, OrderInitially, PTL DEF Spec
=============================================================================
