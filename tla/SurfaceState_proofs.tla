------------------------ MODULE SurfaceState_proofs -------------------------
(***************************************************************************)
(* Proofs about SurfaceState for every set of subsurfaces, buffers and     *)
(* values: type correctness with the reference counts it rests on, the     *)
(* double buffer, and what the screen shows.                               *)
(***************************************************************************)
EXTENDS SurfaceState, FiniteSetTheorems, TLAPS

(* TypeOK, with counters that might go below zero. *)
Types ==
    /\ fState \in [Surface -> StateOf] /\ fPendingState \in [Surface -> StateOf]
    /\ fPendingFields \in [Surface -> SUBSET Bit]
    /\ fContentChanged \in [Surface -> BOOLEAN] /\ fContentSerial \in [Surface -> Nat]
    /\ position \in [Child -> Value] /\ viewPosition \in [Child -> Value]
    /\ view \subseteq Surface /\ bounds \in [Surface -> BOOLEAN]
    /\ fSurfaceInitalized \in BOOLEAN /\ open \in BOOLEAN
    /\ invalid \in BOOLEAN /\ drawing \in BOOLEAN
    /\ pixels \in [Buffer -> 0 .. MaxWrite] /\ named \subseteq Buffer
    /\ refs \in [Buffer -> Int]
    /\ committed \in [Surface -> Nat] /\ unplaced \subseteq Child
    /\ owed \in [Surface -> [Buffer -> Int]]

(* The members that share a bit agree while it is not set. *)
ViewportKept == \A s \in Surface : "viewport" \notin fPendingFields[s] =>
    /\ fPendingState[s].viewportSrc = fState[s].viewportSrc
    /\ fPendingState[s].viewportDst = fState[s].viewportDst

Holding(f, b) == {s \in Surface : f[s].buffer = b}

IInv == Types /\ CountsHolders /\ ReleasesBalance

(* What a commit makes current is a surface state. *)
LEMMA AppliedType ==
    ASSUME Types, NEW s \in Surface
    PROVE  /\ Applied(s) \in StateOf
           /\ Applied(s).buffer = IF "buffer" \in fPendingFields[s] THEN fPendingState[s].buffer
                                  ELSE fState[s].buffer
<1>1. fState[s] \in StateOf /\ fPendingState[s] \in StateOf
  BY DEF Types
<1>2. Applied(s) = [m \in Member |->
          IF BitOf(m) \in fPendingFields[s] THEN fPendingState[s][m] ELSE fState[s][m]]
  BY DEF Applied
<1> QED BY <1>1, <1>2 DEF StateOf, Member, BitOf

(* A state with some members replaced is a state. *)
LEMMA ReplacedType ==
    ASSUME NEW p \in StateOf
    PROVE  /\ \A b \in Buffer \cup {None}, v \in Value :
                [p EXCEPT !.buffer = b, !.offset = v] \in StateOf
           /\ \A o, i \in Value : [p EXCEPT !.opaqueRgn = o, !.inputRgn = i] \in StateOf
           /\ \A m \in Member \ {"buffer"}, v \in Value : [p EXCEPT ![m] = v] \in StateOf
<1>1. ASSUME NEW m \in Member \ {"buffer"}, NEW v \in Value PROVE [p EXCEPT ![m] = v] \in StateOf
  <2>1. \/ m = "offset" \/ m = "transform" \/ m = "scale" \/ m = "opaqueRgn" \/ m = "inputRgn"
        \/ m = "viewportSrc" \/ m = "viewportDst"
    BY DEF Member
  <2> QED BY <2>1 DEF StateOf
<1>2. ASSUME NEW b \in Buffer \cup {None}, NEW v \in Value
      PROVE  [p EXCEPT !.buffer = b, !.offset = v] \in StateOf
  BY DEF StateOf
<1>3. ASSUME NEW o \in Value, NEW i \in Value
      PROVE  [p EXCEPT !.opaqueRgn = o, !.inputRgn = i] \in StateOf
  BY DEF StateOf
<1> QED BY <1>1, <1>2, <1>3

(* Moving the regions out leaves the rest of the pending state alone. *)
LEMMA MovedFromType ==
    ASSUME Types, NEW s \in Surface, NEW p \in MovedFrom(s)
    PROVE  /\ p \in StateOf
           /\ p.buffer = fPendingState[s].buffer
           /\ \A m \in Member :
                m \notin {"opaqueRgn", "inputRgn"} \/ BitOf(m) \notin fPendingFields[s] =>
                    p[m] = fPendingState[s][m]
<1>1. fPendingState[s] \in StateOf
  BY DEF Types
<1> DEFINE opaque == LeftBehind(s, "opaqueRgn")
           input == LeftBehind(s, "inputRgn")
<1>2. PICK o \in opaque, i \in input : p = [fPendingState[s] EXCEPT !.opaqueRgn = o, !.inputRgn = i]
  <2>1. PICK left \in [opaqueRgn : opaque, inputRgn : input] :
          p = [fPendingState[s] EXCEPT !.opaqueRgn = left.opaqueRgn, !.inputRgn = left.inputRgn]
    BY DEF MovedFrom
  <2> QED BY <2>1
<1>3. o \in Value /\ i \in Value
  BY <1>1 DEF StateOf, LeftBehind
<1>4. p \in StateOf
  BY <1>1, <1>2, <1>3, ReplacedType
<1>5. \A m \in Member : m \notin {"opaqueRgn", "inputRgn"} => p[m] = fPendingState[s][m]
  BY <1>1, <1>2 DEF StateOf, Member
<1>6. p.buffer = fPendingState[s].buffer
  BY <1>5 DEF Member
<1>7. /\ "opaqueRgn" \notin fPendingFields[s] => p.opaqueRgn = fPendingState[s].opaqueRgn
      /\ "inputRgn" \notin fPendingFields[s] => p.inputRgn = fPendingState[s].inputRgn
  BY <1>1, <1>2 DEF StateOf, LeftBehind
<1> QED BY <1>4, <1>5, <1>6, <1>7 DEF BitOf

(* Reassigning one surface's buffer changes the holders as it changes the *)
(* counts.                                                                *)
LEMMA HoldersChange ==
    ASSUME NEW f \in [Surface -> StateOf], NEW g \in [Surface -> StateOf], NEW s \in Surface,
           \A t \in Surface \ {s} : g[t].buffer = f[t].buffer, NEW b \in Buffer
    PROVE  /\ Cardinality(Holding(f, b)) \in Nat /\ Cardinality(Holding(g, b)) \in Nat
           /\ Cardinality(Holding(g, b)) =
                Cardinality(Holding(f, b)) + One(b = g[s].buffer) - One(b = f[s].buffer)
<1> DEFINE rest == Holding(f, b) \ {s}
<1>1. IsFiniteSet(Surface)
  BY SurfaceAssumption, FS_EmptySet, FS_AddElement DEF Surface
<1>2. IsFiniteSet(Holding(f, b)) /\ IsFiniteSet(Holding(g, b)) /\ IsFiniteSet(rest)
  BY <1>1, FS_Subset DEF Holding
<1>3. /\ Cardinality(Holding(f, b)) \in Nat /\ Cardinality(Holding(g, b)) \in Nat
      /\ Cardinality(rest) \in Nat
  BY <1>2, FS_CardinalityType
<1>4. Cardinality(Holding(f, b)) = Cardinality(rest) + One(b = f[s].buffer)
  <2>1. CASE b = f[s].buffer
    <3>1. Holding(f, b) = rest \cup {s} /\ s \notin rest
      BY <2>1 DEF Holding
    <3> QED BY <3>1, <2>1, <1>2, <1>3, FS_AddElement DEF One
  <2>2. CASE b # f[s].buffer
    <3>1. Holding(f, b) = rest
      BY <2>2 DEF Holding
    <3> HIDE DEF rest
    <3> QED BY <3>1, <2>2, <1>3 DEF One
  <2> QED BY <2>1, <2>2
<1>5. Cardinality(Holding(g, b)) = Cardinality(rest) + One(b = g[s].buffer)
  <2>1. CASE b = g[s].buffer
    <3>1. Holding(g, b) = rest \cup {s} /\ s \notin rest
      BY <2>1 DEF Holding
    <3> QED BY <3>1, <2>1, <1>2, <1>3, FS_AddElement DEF One
  <2>2. CASE b # g[s].buffer
    <3>1. Holding(g, b) = rest
      BY <2>2 DEF Holding
    <3> QED BY <3>1, <2>2, <1>3 DEF One
  <2> QED BY <2>1, <2>2
<1> QED BY <1>3, <1>4, <1>5 DEF One

(* A surface holds a buffer as often as states name it. *)
LEMMA HoldingIsCounted == CountsHolders <=> \A b \in Buffer :
    refs[b] = One(b \in named) + Cardinality(Holding(fState, b)) + Cardinality(Holding(fPendingState, b))
BY DEF CountsHolders, Holding

LEMMA HoldersNat ==
    ASSUME Types, NEW b \in Buffer
    PROVE  Cardinality(Holding(fState, b)) \in Nat /\ Cardinality(Holding(fPendingState, b)) \in Nat
BY HoldersChange DEF Types, Surface

LEMMA InitIInv == Init => IInv
<1> SUFFICES ASSUME Init PROVE IInv
  OBVIOUS
<1>1. \A s \in Surface : fState[s].buffer = None /\ fPendingState[s].buffer = None
  BY DEF Init, Member
<1>2. [m \in Member |-> IF m = "buffer" THEN None ELSE Default] \in StateOf
  BY ValueAssumption DEF StateOf, Member
<1>3. Types
  <2>1. fState \in [Surface -> StateOf] /\ fPendingState \in [Surface -> StateOf]
    BY <1>2 DEF Init
  <2>2. 0 \in 0 .. MaxWrite
    BY BoundAssumption
  <2>3. owed \in [Surface -> [Buffer -> Int]] /\ refs \in [Buffer -> Int]
    BY DEF Init
  <2>4. /\ fPendingFields \in [Surface -> SUBSET Bit] /\ fContentChanged \in [Surface -> BOOLEAN]
        /\ fContentSerial \in [Surface -> Nat] /\ committed \in [Surface -> Nat]
        /\ pixels \in [Buffer -> 0 .. MaxWrite]
    BY <2>2 DEF Init
  <2>5. position \in [Child -> Value] /\ viewPosition \in [Child -> Value]
    BY ValueAssumption DEF Init
  <2> QED BY <2>1, <2>3, <2>4, <2>5 DEF Init, Types
<1>4. \A b \in Buffer : Holding(fState, b) = {} /\ Holding(fPendingState, b) = {}
  BY <1>1, BufferAssumption DEF Holding
<1>5. CountsHolders
  <2>1. \A b \in Buffer : refs[b] = 0 /\ One(b \in named) = 0
    BY DEF Init, One
  <2>2. Cardinality({}) = 0
    BY FS_EmptySet
  <2> QED BY <1>4, <2>1, <2>2, HoldingIsCounted
<1>6. ReleasesBalance
  BY <1>1, BufferAssumption DEF Init, ReleasesBalance, One
<1> QED BY <1>3, <1>5, <1>6 DEF IInv

(* Steps that change neither counts nor what is counted. *)
LEMMA CountsKept ==
    ASSUME IInv, Types', UNCHANGED bufferVars, UNCHANGED owed, UNCHANGED fState,
           \A s \in Surface : fPendingState'[s].buffer = fPendingState[s].buffer
    PROVE  IInv'
<1>1. \A b \in Buffer : Holding(fState', b) = Holding(fState, b)
                       /\ Holding(fPendingState', b) = Holding(fPendingState, b)
  BY DEF Holding
<1>2. CountsHolders'
  BY <1>1 DEF IInv, CountsHolders, Holding, bufferVars
<1>3. ReleasesBalance'
  BY DEF IInv, ReleasesBalance
<1> QED BY <1>2, <1>3 DEF IInv

(* What the client of an instance asks for are members and their values. *)
LEMMA RequestsTyped ==
    /\ Painted \subseteq Surface /\ AttachOffset \subseteq Value
    /\ \A a \in Asked : a[1] \in Member \ {"buffer"} /\ a[2] \in Value
BY AskedAssumption, ValueAssumption DEF AttachOffset

LEMMA PreserveTypes == ASSUME IInv, [Next]_vars PROVE Types'
<1> USE DEF IInv, Types
<1> USE DEF vars, surfaceVars, screenVars, windowVars, bufferVars, historyVars
<1>1. CASE UNCHANGED vars
  BY <1>1
<1>2. ASSUME NEW b \in Buffer, CreateBuffer(b) PROVE Types'
  BY <1>2 DEF CreateBuffer
<1>3. ASSUME NEW b \in Buffer, DestroyBuffer(b) PROVE Types'
  BY <1>3 DEF DestroyBuffer
<1>4. ASSUME NEW b \in Buffer, WriteBuffer(b) PROVE Types'
  BY <1>4, BoundAssumption DEF WriteBuffer
<1>5. ASSUME NEW s \in Surface, HandleDamage(s) \/ HandleFrame(s) PROVE Types'
  BY <1>5 DEF HandleDamage, HandleFrame, Bit
<1>6. ASSUME NEW s \in Surface, NEW b \in Buffer \cup {None}, NEW v \in Value,
             HandleAttach(s, b, v)
      PROVE  Types'
  <2>1. fPendingState' \in [Surface -> StateOf]
    BY <1>6, ReplacedType DEF HandleAttach
  <2>2. refs' \in [Buffer -> Int]
    BY <1>6 DEF HandleAttach, Reassigned, One
  <2> QED BY <1>6, <2>1, <2>2 DEF HandleAttach, Bit
<1>7. ASSUME NEW s \in Surface, NEW m \in Member \ {"buffer"}, NEW v \in Value,
             SetPending(s, m, v)
      PROVE  Types'
  <2>1. BitOf(m) \in Bit /\ m \in Member
    BY AskedAssumption DEF BitOf, Bit, Member
  <2>2. fPendingState' \in [Surface -> StateOf]
    BY <1>7, <2>1, ReplacedType DEF SetPending
  <2> QED BY <1>7, <2>1, <2>2 DEF SetPending
<1>8. ASSUME NEW c \in Child, NEW v \in Value, HandleSetPosition(c, v) PROVE Types'
  BY <1>8 DEF HandleSetPosition
<1>9. ASSUME NEW s \in Surface, HandleCommit(s) PROVE Types'
  <2>1. fState' \in [Surface -> StateOf]
    BY <1>9, AppliedType DEF HandleCommit, CommitState
  <2>2. fPendingState' \in [Surface -> StateOf] /\ fPendingFields' \in [Surface -> SUBSET Bit]
    <3>1. PICK p \in MovedFrom(s) : fPendingState' = [fPendingState EXCEPT ![s] = p]
      BY <1>9 DEF HandleCommit, CommitState
    <3>2. p \in StateOf
      BY MovedFromType
    <3> QED BY <1>9, <3>1, <3>2 DEF HandleCommit, CommitState
  <2>3. /\ fContentSerial' \in [Surface -> Nat] /\ fContentChanged' \in [Surface -> BOOLEAN]
        /\ committed' \in [Surface -> Nat]
    <3>1. Applied(s).buffer \in Buffer \cup {None}
      BY AppliedType DEF StateOf
    <3> QED BY <1>9, <3>1 DEF HandleCommit, CommitContent, One
  <2>4. refs' \in [Buffer -> Int]
    BY <1>9 DEF HandleCommit, CommitBuffer, Reassigned, One
  <2>5. owed' \in [Surface -> [Buffer -> Int]]
    <3> DEFINE balance == [b \in Buffer |->
                 owed[s][b] + One(b = fPendingState[s].buffer) - One(b = fState[s].buffer)]
    <3>1. \A b \in Buffer : balance[b] \in Int
      <4>1. \A b \in Buffer : owed[s][b] \in Int
        OBVIOUS
      <4> QED BY <4>1 DEF One
    <3>2. balance \in [Buffer -> Int]
      BY <3>1
    <3>3. CASE "buffer" \in fPendingFields[s]
      <4>1. owed' = [owed EXCEPT ![s] = balance]
        BY <1>9, <3>3 DEF HandleCommit, CommitBuffer
      <4> HIDE DEF balance
      <4> QED BY <3>2, <4>1
    <3>4. CASE "buffer" \notin fPendingFields[s]
      BY <1>9, <3>4 DEF HandleCommit, CommitBuffer
    <3> QED BY <3>3, <3>4
  <2>6. viewPosition' \in [Child -> Value] /\ unplaced' \subseteq Child
    BY <1>9 DEF HandleCommit, CommitView
  <2>7. bounds' \in [Surface -> BOOLEAN]
    <3>1. HasSize(Applied(s)) \in BOOLEAN
      BY DEF HasSize
    <3> QED BY <1>9, <3>1 DEF HandleCommit, CommitView
  <2>8. invalid' \in BOOLEAN /\ fSurfaceInitalized' \in BOOLEAN /\ open' \in BOOLEAN
    BY <1>9 DEF HandleCommit, CommitView
  <2> QED BY <1>9, <2>1, <2>2, <2>3, <2>4, <2>5, <2>6, <2>7, <2>8 DEF HandleCommit
<1>10. CASE AttachWindow
  BY <1>10, ValueAssumption DEF AttachWindow, Surface
<1>11. CASE Detach \/ BeginUpdate \/ Draw
  BY <1>11 DEF Detach, BeginUpdate, Draw
<1> QED BY <1>1, <1>2, <1>3, <1>4, <1>5, <1>6, <1>7, <1>8, <1>9, <1>10, <1>11, RequestsTyped DEF Next

(* The counts follow the holders, and the releases follow the commits. *)
LEMMA PreserveIInv == ASSUME IInv, [Next]_vars PROVE IInv'
<1>0. Types' /\ Types
  BY PreserveTypes DEF IInv
<1> USE DEF vars, surfaceVars, screenVars, windowVars, historyVars
<1>1. CASE UNCHANGED vars
  BY <1>0, <1>1, CountsKept
<1>2. ASSUME NEW b \in Buffer, CreateBuffer(b) PROVE IInv'
  <2>1. \A c \in Buffer : /\ Cardinality(Holding(fState, c)) \in Nat
                          /\ Cardinality(Holding(fPendingState, c)) \in Nat
    BY <1>0, HoldersNat
  <2>2. \A c \in Buffer :
          refs[c] = One(c \in named) + Cardinality(Holding(fState, c)) + Cardinality(Holding(fPendingState, c))
    BY HoldingIsCounted DEF IInv
  <2>3. One(b \in named) = 0
    BY <1>2, <2>1, <2>2 DEF CreateBuffer, One
  <2>4. \A c \in Buffer : One(c \in named') = One(c \in named) + (IF c = b THEN 1 ELSE 0)
    BY <1>2, <2>3 DEF CreateBuffer, One
  <2>5. \A c \in Buffer : refs'[c] = refs[c] + (IF c = b THEN 1 ELSE 0)
    BY <1>0, <1>2 DEF CreateBuffer, Types
  <2>6. \A c \in Buffer : One(c \in named) \in Nat
    BY DEF One
  <2>7. \A c \in Buffer :
          refs'[c] = One(c \in named') + Cardinality(Holding(fState', c))
                        + Cardinality(Holding(fPendingState', c))
    <3>1. fState' = fState /\ fPendingState' = fPendingState
      BY <1>2 DEF CreateBuffer
    <3> QED BY <2>1, <2>2, <2>4, <2>5, <2>6, <3>1
  <2>8. CountsHolders'
    BY <2>7 DEF CountsHolders, Holding
  <2> QED BY <1>0, <1>2, <2>8 DEF IInv, ReleasesBalance, CreateBuffer
<1>3. ASSUME NEW b \in Buffer, DestroyBuffer(b) PROVE IInv'
  <2>1. \A c \in Buffer : /\ Cardinality(Holding(fState, c)) \in Nat
                          /\ Cardinality(Holding(fPendingState, c)) \in Nat
    BY <1>0, HoldersNat
  <2>2. \A c \in Buffer :
          refs[c] = One(c \in named) + Cardinality(Holding(fState, c)) + Cardinality(Holding(fPendingState, c))
    BY HoldingIsCounted DEF IInv
  <2>3. \A c \in Buffer : One(c \in named') = One(c \in named) - (IF c = b THEN 1 ELSE 0)
    BY <1>3 DEF DestroyBuffer, One
  <2>4. \A c \in Buffer : refs'[c] = refs[c] - (IF c = b THEN 1 ELSE 0)
    BY <1>0, <1>3 DEF DestroyBuffer, Types
  <2>5. \A c \in Buffer : One(c \in named) \in Nat
    BY DEF One
  <2>6. \A c \in Buffer :
          refs'[c] = One(c \in named') + Cardinality(Holding(fState', c))
                        + Cardinality(Holding(fPendingState', c))
    <3>1. fState' = fState /\ fPendingState' = fPendingState
      BY <1>3 DEF DestroyBuffer
    <3> QED BY <2>1, <2>2, <2>3, <2>4, <2>5, <3>1
  <2>7. CountsHolders'
    BY <2>6 DEF CountsHolders, Holding
  <2> QED BY <1>0, <1>3, <2>7 DEF IInv, ReleasesBalance, DestroyBuffer
<1>4. ASSUME NEW b \in Buffer, WriteBuffer(b) PROVE IInv'
  BY <1>0, <1>4 DEF IInv, WriteBuffer, CountsHolders, ReleasesBalance
<1>5. ASSUME NEW s \in Surface, HandleDamage(s) \/ HandleFrame(s) PROVE IInv'
  BY <1>0, <1>5, CountsKept DEF HandleDamage, HandleFrame
<1>6. ASSUME NEW s \in Surface, NEW b \in Buffer \cup {None}, NEW v \in Value,
             HandleAttach(s, b, v)
      PROVE  IInv'
  <2>1. fPendingState'[s].buffer = b
    BY <1>0, <1>6 DEF HandleAttach, Types, StateOf
  <2>2. \A t \in Surface \ {s} : fPendingState'[t].buffer = fPendingState[t].buffer
    BY <1>0, <1>6 DEF HandleAttach, Types
  <2>3. ASSUME NEW c \in Buffer
        PROVE  refs'[c] = One(c \in named') + Cardinality(Holding(fState', c))
                            + Cardinality(Holding(fPendingState', c))
    <3>1. /\ Cardinality(Holding(fPendingState, c)) \in Nat
          /\ Cardinality(Holding(fPendingState', c)) = Cardinality(Holding(fPendingState, c))
                + One(c = fPendingState'[s].buffer) - One(c = fPendingState[s].buffer)
      <4>1. fPendingState \in [Surface -> StateOf] /\ fPendingState' \in [Surface -> StateOf]
        BY <1>0 DEF Types
      <4> QED BY <2>2, <4>1, HoldersChange
    <3>2. refs'[c] = refs[c] + One(c = b) - One(c = fPendingState[s].buffer)
      BY <1>6 DEF HandleAttach, Reassigned
    <3>3. refs[c] = One(c \in named) + Cardinality(Holding(fState, c)) + Cardinality(Holding(fPendingState, c))
      BY HoldingIsCounted DEF IInv
    <3>4. One(c = b) \in Nat /\ One(c = fPendingState[s].buffer) \in Nat /\ One(c \in named) \in Nat
      BY DEF One
    <3>5. Cardinality(Holding(fState, c)) \in Nat
      BY <1>0, HoldersNat
    <3>6. fState' = fState /\ named' = named
      BY <1>6 DEF HandleAttach
    <3> QED BY <2>1, <3>1, <3>2, <3>3, <3>4, <3>5, <3>6
  <2>4. CountsHolders'
    BY <2>3 DEF CountsHolders, Holding
  <2> QED BY <1>0, <1>6, <2>4 DEF IInv, ReleasesBalance, HandleAttach
<1>7. ASSUME NEW s \in Surface, NEW m \in Member \ {"buffer"}, NEW v \in Value,
             SetPending(s, m, v)
      PROVE  IInv'
  <2>1. \A t \in Surface : fPendingState'[t].buffer = fPendingState[t].buffer
    <3>1. m \in Member \ {"buffer"}
      BY AskedAssumption
    <3> QED BY <1>0, <1>7, <3>1 DEF SetPending, Types, StateOf, Member
  <2> QED BY <1>0, <1>7, <2>1, CountsKept DEF SetPending
<1>8. ASSUME NEW c \in Child, NEW v \in Value, HandleSetPosition(c, v) PROVE IInv'
  BY <1>0, <1>8, CountsKept DEF HandleSetPosition
<1>9. ASSUME NEW s \in Surface, HandleCommit(s) PROVE IInv'
  <2> DEFINE old == fState[s].buffer
             new == IF "buffer" \in fPendingFields[s] THEN fPendingState[s].buffer ELSE old
  <2>1. /\ fState'[s].buffer = new
        /\ \A t \in Surface \ {s} : fState'[t] = fState[t]
    BY <1>0, <1>9, AppliedType DEF HandleCommit, CommitState, Types
  <2>2. \A t \in Surface : fPendingState'[t].buffer = fPendingState[t].buffer
    <3>1. PICK p \in MovedFrom(s) : fPendingState' = [fPendingState EXCEPT ![s] = p]
      BY <1>9 DEF HandleCommit, CommitState
    <3>2. p.buffer = fPendingState[s].buffer
      BY <1>0, MovedFromType
    <3> QED BY <1>0, <3>1, <3>2 DEF Types
  <2>3. \A b \in Buffer : One(b = new) \in Nat /\ One(b = old) \in Nat /\ One(b \in named) \in Nat
    BY DEF One
  <2>4. \A b \in Buffer : refs'[b] = refs[b] + One(b = new) - One(b = old)
    <3>1. CASE "buffer" \in fPendingFields[s]
      BY <1>9, <3>1 DEF HandleCommit, CommitBuffer, Reassigned
    <3>2. CASE "buffer" \notin fPendingFields[s]
      <4>1. refs' = refs /\ new = old
        BY <1>9, <3>2 DEF HandleCommit, CommitBuffer
      <4> HIDE DEF new, old
      <4> QED BY <1>0, <2>3, <4>1 DEF Types
    <3> QED BY <3>1, <3>2
  <2>5. \A b \in Buffer : owed'[s][b] = owed[s][b] + One(b = new) - One(b = old)
    <3>1. CASE "buffer" \in fPendingFields[s]
      BY <1>0, <1>9, <3>1 DEF HandleCommit, CommitBuffer, Types
    <3>2. CASE "buffer" \notin fPendingFields[s]
      <4>1. owed' = owed /\ new = old
        BY <1>9, <3>2 DEF HandleCommit, CommitBuffer
      <4> HIDE DEF new, old
      <4>2. \A b \in Buffer : owed[s][b] \in Int
        BY <1>0 DEF Types
      <4> QED BY <2>3, <4>1, <4>2
    <3> QED BY <3>1, <3>2
  <2>6. \A t \in Surface \ {s} : owed'[t] = owed[t]
    BY <1>0, <1>9 DEF HandleCommit, CommitBuffer, Types
  <2> HIDE DEF new
  <2>7. ASSUME NEW c \in Buffer
        PROVE  refs'[c] = One(c \in named') + Cardinality(Holding(fState', c))
                            + Cardinality(Holding(fPendingState', c))
    <3>1. /\ Cardinality(Holding(fState, c)) \in Nat
          /\ Cardinality(Holding(fState', c)) =
               Cardinality(Holding(fState, c)) + One(c = new) - One(c = old)
      <4>1. fState \in [Surface -> StateOf] /\ fState' \in [Surface -> StateOf]
        BY <1>0 DEF Types
      <4>2. \A t \in Surface \ {s} : fState'[t].buffer = fState[t].buffer
        BY <2>1
      <4>3. /\ Cardinality(Holding(fState, c)) \in Nat
            /\ Cardinality(Holding(fState', c)) = Cardinality(Holding(fState, c))
                  + One(c = fState'[s].buffer) - One(c = fState[s].buffer)
        BY <4>1, <4>2, HoldersChange
      <4> QED BY <2>1, <4>3
    <3>2. Holding(fPendingState', c) = Holding(fPendingState, c)
      BY <2>2 DEF Holding
    <3>3. refs[c] = One(c \in named) + Cardinality(Holding(fState, c)) + Cardinality(Holding(fPendingState, c))
      BY HoldingIsCounted DEF IInv
    <3>4. Cardinality(Holding(fPendingState, c)) \in Nat
      BY <1>0, HoldersNat
    <3>5. named' = named
      BY <1>9 DEF HandleCommit
    <3> HIDE DEF old
    <3> QED BY <2>3, <2>4, <3>1, <3>2, <3>3, <3>4, <3>5
  <2>8. CountsHolders'
    BY <2>7 DEF CountsHolders, Holding
  <2>9. ReleasesBalance'
    <3>1. \A b \in Buffer : owed[s][b] = One(b = old)
      BY DEF IInv, ReleasesBalance
    <3> HIDE DEF old
    <3>2. \A b \in Buffer : owed'[s][b] = One(b = new)
      BY <2>3, <2>5, <3>1
    <3> QED BY <2>1, <2>6, <3>2 DEF IInv, ReleasesBalance
  <2> QED BY <1>0, <2>8, <2>9 DEF IInv
<1>10. CASE AttachWindow \/ Detach \/ BeginUpdate \/ Draw
  BY <1>0, <1>10, CountsKept DEF AttachWindow, Detach, BeginUpdate, Draw
<1> QED BY <1>1, <1>2, <1>3, <1>4, <1>5, <1>6, <1>7, <1>8, <1>9, <1>10, RequestsTyped DEF Next

THEOREM CountsInvariant == Spec => []IInv
<1>1. Init => IInv
  BY InitIInv
<1>2. IInv /\ [Next]_vars => IInv'
  BY PreserveIInv
<1> QED BY <1>1, <1>2, PTL DEF Spec

(* TypeOK, and with it that no count ever goes below zero. *)
THEOREM TypeCorrect == Spec => []TypeOK
<1>1. ASSUME IInv PROVE TypeOK
  <2>1. Types
    BY <1>1 DEF IInv
  <2>2. refs \in [Buffer -> Nat]
    <3>1. \A b \in Buffer :
            refs[b] = One(b \in named) + Cardinality(Holding(fState, b)) + Cardinality(Holding(fPendingState, b))
      BY <1>1, HoldingIsCounted DEF IInv
    <3>2. \A b \in Buffer : One(b \in named) \in Nat
      BY DEF One
    <3>3. \A b \in Buffer : refs[b] \in Nat
      BY <2>1, <3>1, <3>2, HoldersNat
    <3> QED BY <2>1, <3>3 DEF Types
  <2>3. owed \in [Surface -> [Buffer -> Nat]]
    <3>1. \A s \in Surface, b \in Buffer : owed[s][b] \in Nat
      BY <1>1 DEF IInv, ReleasesBalance, One
    <3> QED BY <2>1, <3>1 DEF Types
  <2> QED BY <2>1, <2>2, <2>3 DEF Types, TypeOK
<1> QED BY <1>1, CountsInvariant, PTL

(* Reference counts are the number of holders, for any number of surfaces. *)
THEOREM BuffersCounted == Spec => []CountsHolders
BY CountsInvariant, PTL DEF IInv

(* Each commit of a buffer is answered by one release. *)
THEOREM BuffersReturned == Spec => []ReleasesBalance
BY CountsInvariant, PTL DEF IInv
-----------------------------------------------------------------------------
(* The double buffer *)

(* Members of Applied, one by one. *)
LEMMA AppliedMember ==
    \A s \in Surface, m \in Member : Applied(s)[m] =
        IF BitOf(m) \in fPendingFields[s] THEN fPendingState[s][m] ELSE fState[s][m]
BY DEF Applied

LEMMA AppliedMemberNext ==
    \A s \in Surface, m \in Member : Applied(s)'[m] =
        IF BitOf(m) \in fPendingFields'[s] THEN fPendingState'[s][m] ELSE fState'[s][m]
BY DEF Applied

(* A commit makes current what was applied and leaves the rest pending. *)
LEMMA CommitMembers ==
    ASSUME Types, NEW s \in Surface, HandleCommit(s)
    PROVE  /\ \A m \in Member : fState'[s][m] = Applied(s)[m]
           /\ \A t \in Surface \ {s} : /\ fState'[t] = fState[t]
                                       /\ fPendingState'[t] = fPendingState[t]
                                       /\ fPendingFields'[t] = fPendingFields[t]
           /\ fPendingFields'[s] = {}
           /\ \A m \in {"viewportSrc", "viewportDst"} : fPendingState'[s][m] = fPendingState[s][m]
<1>1. PICK p \in MovedFrom(s) : fPendingState' = [fPendingState EXCEPT ![s] = p]
  BY DEF HandleCommit, CommitState
<1>2. \A m \in {"viewportSrc", "viewportDst"} : p[m] = fPendingState[s][m]
  BY MovedFromType DEF Member
<1> QED BY <1>1, <1>2 DEF HandleCommit, CommitState, Types

LEMMA PreserveViewport == ASSUME Types, ViewportKept, [Next]_vars PROVE ViewportKept'
<1> USE DEF vars, surfaceVars
<1>1. CASE UNCHANGED surfaceVars
  BY <1>1 DEF ViewportKept
<1>2. ASSUME NEW s \in Surface, HandleDamage(s) \/ HandleFrame(s) PROVE ViewportKept'
  BY <1>2 DEF ViewportKept, HandleDamage, HandleFrame, Types
<1>3. ASSUME NEW s \in Surface, NEW b \in Buffer \cup {None}, NEW v \in Value,
             HandleAttach(s, b, v)
      PROVE  ViewportKept'
  <2>1. \A t \in Surface : /\ fPendingState'[t].viewportSrc = fPendingState[t].viewportSrc
                           /\ fPendingState'[t].viewportDst = fPendingState[t].viewportDst
                           /\ fPendingFields[t] \subseteq fPendingFields'[t]
    BY <1>3 DEF HandleAttach, Types, StateOf
  <2> QED BY <1>3, <2>1 DEF ViewportKept, HandleAttach
<1>4. ASSUME NEW s \in Surface, NEW m \in Member \ {"buffer"}, NEW v \in Value,
             SetPending(s, m, v)
      PROVE  ViewportKept'
  <2>1. m \in Member
    BY AskedAssumption
  <2>2. \A t \in Surface : fPendingFields[t] \subseteq fPendingFields'[t]
    BY <1>4 DEF SetPending, Types
  <2>3. \A t \in Surface \ {s} : fPendingState'[t] = fPendingState[t]
    BY <1>4 DEF SetPending, Types
  <2>4. CASE m \in {"viewportSrc", "viewportDst"}
    <3>1. "viewport" \in fPendingFields'[s]
      BY <1>4, <2>4 DEF SetPending, Types, BitOf
    <3> QED BY <1>4, <2>2, <2>3, <3>1 DEF ViewportKept, SetPending
  <2>5. CASE m \notin {"viewportSrc", "viewportDst"}
    <3>1. /\ fPendingState'[s].viewportSrc = fPendingState[s].viewportSrc
          /\ fPendingState'[s].viewportDst = fPendingState[s].viewportDst
      BY <1>4, <2>1, <2>5 DEF SetPending, Types, StateOf
    <3> QED BY <1>4, <2>2, <2>3, <3>1 DEF ViewportKept, SetPending
  <2> QED BY <2>4, <2>5
<1>5. ASSUME NEW s \in Surface, HandleCommit(s) PROVE ViewportKept'
  <2>1. /\ fState'[s].viewportSrc = Applied(s).viewportSrc
        /\ fState'[s].viewportDst = Applied(s).viewportDst
    BY <1>5, CommitMembers DEF Member
  <2>2. /\ fPendingState'[s].viewportSrc = fPendingState[s].viewportSrc
        /\ fPendingState'[s].viewportDst = fPendingState[s].viewportDst
    BY <1>5, CommitMembers
  <2>3. /\ Applied(s).viewportSrc = fPendingState[s].viewportSrc
        /\ Applied(s).viewportDst = fPendingState[s].viewportDst
    BY AppliedMember DEF ViewportKept, Member, BitOf
  <2> QED BY <1>5, <2>1, <2>2, <2>3, CommitMembers DEF ViewportKept
<1>6. ASSUME NEW b \in Buffer, CreateBuffer(b) \/ DestroyBuffer(b) \/ WriteBuffer(b)
      PROVE  UNCHANGED surfaceVars
  BY <1>6 DEF CreateBuffer, DestroyBuffer, WriteBuffer
<1>7. ASSUME NEW c \in Child, NEW v \in Value, HandleSetPosition(c, v) PROVE UNCHANGED surfaceVars
  BY <1>7 DEF HandleSetPosition
<1>8. CASE AttachWindow \/ Detach \/ BeginUpdate \/ Draw
  BY <1>1, <1>8 DEF AttachWindow, Detach, BeginUpdate, Draw
<1>9. CASE UNCHANGED vars
  BY <1>1, <1>9
<1> QED BY <1>1, <1>2, <1>3, <1>4, <1>5, <1>6, <1>7, <1>8, <1>9, RequestsTyped DEF Next

Asks == {{"buffer", "offset"}} \cup {{m} : m \in Member \ {"buffer"}}

(* Each step is a step of the double buffer or none. *)
LEMMA StepRefines ==
    ASSUME Types, ViewportKept, [Next]_vars
    PROVE  [Buffered!Next]_(Buffered!vars)
<1> DEFINE P == [s \in Surface |-> Applied(s)]
<1> USE DEF vars, surfaceVars
<1>0. ASSUME UNCHANGED fState, \A s \in Surface, m \in Member : Applied(s)'[m] = Applied(s)[m]
      PROVE  UNCHANGED (Buffered!vars)
  <2>1. \A s \in Surface : Applied(s)' = Applied(s)
    BY <1>0 DEF Applied
  <2> QED BY <1>0, <2>1 DEF Buffered!vars
<1>1. CASE UNCHANGED surfaceVars
  BY <1>0, <1>1 DEF Applied
<1>2. ASSUME NEW s \in Surface, HandleDamage(s) \/ HandleFrame(s) PROVE UNCHANGED (Buffered!vars)
  <2>1. \A m \in Member : BitOf(m) # "frameCallbacks"
    BY DEF Member, BitOf
  <2>2. \A t \in Surface, m \in Member :
          BitOf(m) \in fPendingFields'[t] <=> BitOf(m) \in fPendingFields[t]
    BY <1>2, <2>1 DEF HandleDamage, HandleFrame, Types
  <2>3. fState' = fState /\ fPendingState' = fPendingState
    BY <1>2 DEF HandleDamage, HandleFrame
  <2> QED BY <1>0, <2>2, <2>3, AppliedMember, AppliedMemberNext
<1>3. ASSUME NEW s \in Surface, NEW ask \in Asks, UNCHANGED fState,
             \A t \in Surface, m \in Member :
                t # s \/ m \notin ask => Applied(t)'[m] = Applied(t)[m]
      PROVE  Buffered!Next
  <2>1. \A t \in Surface : P'[t] = Applied(t)' /\ P[t] = Applied(t)
    OBVIOUS
  <2>2. \A t \in Surface \ {s} : P'[t] = P[t]
    BY <1>3 DEF Applied
  <2>3. {m \in Member : P'[s][m] # P[s][m]} \subseteq ask
    BY <1>3, <2>1
  <2> HIDE DEF P
  <2> QED BY <1>3, <2>2, <2>3 DEF Buffered!Next, Buffered!Ask, Buffered!Differing, Asks, P
<1>4. ASSUME NEW s \in Surface, NEW b \in Buffer \cup {None}, NEW v \in Value,
             HandleAttach(s, b, v)
      PROVE  Buffered!Next
  <2> DEFINE ask == {"buffer", "offset"}
  <2>1. \A t \in Surface, m \in Member \ ask :
          /\ fPendingState'[t][m] = fPendingState[t][m]
          /\ BitOf(m) \in fPendingFields'[t] <=> BitOf(m) \in fPendingFields[t]
    BY <1>4 DEF HandleAttach, Types, StateOf, Member, BitOf
  <2>2. \A t \in Surface \ {s} :
          fPendingState'[t] = fPendingState[t] /\ fPendingFields'[t] = fPendingFields[t]
    BY <1>4 DEF HandleAttach, Types
  <2>3. fState' = fState
    BY <1>4 DEF HandleAttach
  <2>4. \A t \in Surface, m \in Member : t # s \/ m \notin ask => Applied(t)'[m] = Applied(t)[m]
    BY <2>1, <2>2, <2>3, AppliedMember, AppliedMemberNext
  <2>5. ask \in Asks
    BY DEF Asks
  <2> QED BY <1>3, <2>3, <2>4, <2>5
<1>5. ASSUME NEW s \in Surface, NEW m \in Member \ {"buffer"}, NEW v \in Value,
             SetPending(s, m, v)
      PROVE  Buffered!Next
  <2>0. m \in Member \ {"buffer"}
    BY AskedAssumption
  <2>1. \A t \in Surface, n \in Member \ {m} : fPendingState'[t][n] = fPendingState[t][n]
    BY <1>5, <2>0 DEF SetPending, Types, StateOf, Member
  <2>2. \A t \in Surface \ {s} :
          fPendingState'[t] = fPendingState[t] /\ fPendingFields'[t] = fPendingFields[t]
    BY <1>5 DEF SetPending, Types
  <2>3. fState' = fState /\ fPendingFields'[s] = fPendingFields[s] \cup {BitOf(m)}
    BY <1>5 DEF SetPending, Types
  <2>4. ASSUME NEW n \in Member \ {m} PROVE Applied(s)'[n] = Applied(s)[n]
    <3>1. CASE BitOf(n) # BitOf(m)
      BY <2>1, <2>3, <3>1, AppliedMember, AppliedMemberNext
    <3>2. CASE BitOf(n) = BitOf(m)
      <4>1. n \in {"viewportSrc", "viewportDst"} /\ BitOf(n) = "viewport"
        BY <2>0, <3>2 DEF BitOf, Member
      <4>2. "viewport" \notin fPendingFields[s] => fPendingState[s][n] = fState[s][n]
        BY <4>1 DEF ViewportKept
      <4> QED BY <2>1, <2>3, <3>2, <4>1, <4>2, AppliedMember, AppliedMemberNext
    <3> QED BY <3>1, <3>2
  <2>5. \A t \in Surface, n \in Member : t # s \/ n \notin {m} => Applied(t)'[n] = Applied(t)[n]
    BY <2>1, <2>2, <2>3, <2>4, AppliedMember, AppliedMemberNext
  <2>6. {m} \in Asks
    BY <2>0 DEF Asks
  <2> QED BY <1>3, <2>3, <2>5, <2>6
<1>6. ASSUME NEW s \in Surface, HandleCommit(s) PROVE Buffered!Next
  <2>1. \A t \in Surface, m \in Member :
          fState'[t][m] = IF t = s THEN Applied(s)[m] ELSE fState[t][m]
    BY <1>6, CommitMembers
  <2>2. \A t \in Surface, m \in Member : Applied(t)'[m] = Applied(t)[m]
    BY <1>6, <2>1, CommitMembers, AppliedMember, AppliedMemberNext
  <2>3. \A t \in Surface : Applied(t)' = Applied(t)
    BY <2>2 DEF Applied
  <2>4. P' = P /\ P[s] = Applied(s)
    BY <2>3
  <2>5. fState' = [fState EXCEPT ![s] = P[s]]
    BY <1>6, <2>4 DEF HandleCommit, CommitState
  <2> QED BY <2>4, <2>5 DEF Buffered!Next, Buffered!Commit
<1>7. ASSUME NEW b \in Buffer, CreateBuffer(b) \/ DestroyBuffer(b) \/ WriteBuffer(b)
      PROVE  UNCHANGED surfaceVars
  BY <1>7 DEF CreateBuffer, DestroyBuffer, WriteBuffer
<1>8. ASSUME NEW c \in Child, NEW v \in Value, HandleSetPosition(c, v) PROVE UNCHANGED surfaceVars
  BY <1>8 DEF HandleSetPosition
<1>9. CASE AttachWindow \/ Detach \/ BeginUpdate \/ Draw
  BY <1>1, <1>9 DEF AttachWindow, Detach, BeginUpdate, Draw
<1>10. CASE UNCHANGED vars
  BY <1>1, <1>10
<1> QED BY <1>1, <1>2, <1>4, <1>5, <1>6, <1>7, <1>8, <1>9, <1>10, RequestsTyped DEF Next

(* The surface state is a double buffer: no commit loses, reverts or invents *)
(* a part of it, whatever the order of requests.                             *)
THEOREM DoubleBuffered == Spec => ImplementsDoubleBuffer
<1>1. Init => Buffered!Init /\ ViewportKept
  <2> SUFFICES ASSUME Init PROVE Buffered!Init /\ ViewportKept
    OBVIOUS
  <2>1. \A s \in Surface : Applied(s) = fState[s]
    BY DEF Init, Applied
  <2>2. [s \in Surface |-> Applied(s)] = fState
    BY <2>1 DEF Init
  <2> QED BY <2>2 DEF Buffered!Init, ViewportKept, Init
<1>2. IInv => Types
  BY DEF IInv
<1>3. Types /\ ViewportKept /\ [Next]_vars => ViewportKept'
  BY PreserveViewport
<1>4. Types /\ ViewportKept /\ [Next]_vars => [Buffered!Next]_(Buffered!vars)
  BY StepRefines
<1> QED BY <1>1, <1>2, <1>3, <1>4, CountsInvariant, PTL DEF Spec, ImplementsDoubleBuffer, Buffered!Spec
-----------------------------------------------------------------------------
(* The screen *)

(* A rendered copy has a version a client wrote. *)
CacheTyped == \A s \in Surface : fNativeCache[s] # None => fNativeCache[s].version \in 0 .. MaxWrite

LEMMA OriginType == ASSUME Types, NEW s \in Surface PROVE Origin(s) \in Value
BY ValueAssumption DEF Types, Origin, Surface

(* A picture stays one while what it depends on stays. *)
LEMMA PicturedKept ==
    ASSUME Types, Types', NEW s \in Surface, shown'[s] = shown[s],
           \A m \in Member \ {"offset", "transform", "inputRgn"} : fState'[s][m] = fState[s][m]
    PROVE  Pictured(s) => Pictured(s)'
<1> SUFFICES ASSUME Pictured(s) PROVE Pictured(s)'
  OBVIOUS
<1>1. PICK v \in 0 .. MaxWrite, cached \in {FALSE, NativeCache}, o \in Value :
        shown[s] = [Picture(s, v, cached) EXCEPT !.origin = o]
  BY DEF Pictured
<1>2. fState[s] \in StateOf /\ fState'[s] \in StateOf
  BY DEF Types
<1> DEFINE bare(st) == [st EXCEPT !.offset = Default, !.transform = Default,
                                  !.inputRgn = Default,
                                  !.opaqueRgn = IF cached THEN Default ELSE @]
<1>3. bare(fState'[s]) = bare(fState[s])
  BY <1>2 DEF StateOf, Member
<1>4. Picture(s, v, cached)' = [state |-> bare(fState'[s]), origin |-> Origin(s)', version |-> v]
  BY DEF Picture
<1>5. Picture(s, v, cached) = [state |-> bare(fState[s]), origin |-> Origin(s), version |-> v]
  BY DEF Picture
<1> HIDE DEF bare
<1>6. shown'[s] = [Picture(s, v, cached)' EXCEPT !.origin = o]
  BY <1>1, <1>3, <1>4, <1>5
<1> QED BY <1>6 DEF Pictured

(* Steps that leave the screen and what it should show alone. *)
LEMMA ScreenKept ==
    ASSUME Types, Types', CacheTyped, ScreenCurrent,
           UNCHANGED <<fState, fNativeCache, position, windowVars, invalid, drawing, shown, unplaced>>
    PROVE  CacheTyped' /\ ScreenCurrent'
<1>1. \A s \in Surface : Pictured(s) => Pictured(s)'
  BY PicturedKept
<1>2. \A s \in Surface : Placed(s) => Placed(s)'
  BY DEF Origin, Placed
<1> QED BY <1>1, <1>2 DEF CacheTyped, ScreenCurrent, Settled, windowVars, Types

(* What Draw draws, and what it leaves in the cache. *)
LEMMA DrawShows ==
    ASSUME Types, CacheTyped, Draw, bounds[Root], NEW s \in Surface
    PROVE  /\ fState[s].buffer = None => shown'[s] = None
           /\ fState[s].buffer # None =>
                \E v \in 0 .. MaxWrite, cached \in {FALSE, NativeCache} :
                    shown'[s] = Picture(s, v, cached)
           /\ fNativeCache'[s] # None => fNativeCache'[s].version \in 0 .. MaxWrite
<1> DEFINE drawn == {t \in Surface : fState[t].buffer # None}
<1>1. PICK allocates \in IF NativeCache THEN BOOLEAN ELSE {FALSE} :
        LET cache == [t \in Surface |->
                IF NativeCache /\ t \in drawn THEN EnsureNativeCache(t, allocates)
                ELSE fNativeCache[t]]
        IN  /\ fNativeCache' = cache
            /\ shown' = [t \in Surface |->
                   IF t \notin drawn THEN None
                   ELSE IF NativeCache /\ cache[t] # None
                   THEN Picture(t, cache[t].version, TRUE)
                   ELSE Picture(t, pixels[fState[t].buffer], FALSE)]
  BY DEF Draw, DrawSurfaceTree
<1>2. /\ fNativeCache'[s] = IF NativeCache /\ s \in drawn THEN EnsureNativeCache(s, allocates)
                           ELSE fNativeCache[s]
      /\ shown'[s] = IF s \notin drawn THEN None
                     ELSE IF NativeCache /\ fNativeCache'[s] # None
                     THEN Picture(s, fNativeCache'[s].version, TRUE)
                     ELSE Picture(s, pixels[fState[s].buffer], FALSE)
  BY <1>1
<1>3. s \in drawn => pixels[fState[s].buffer] \in 0 .. MaxWrite
  BY DEF Types, StateOf
<1>4. fNativeCache'[s] # None => fNativeCache'[s].version \in 0 .. MaxWrite
  <2>1. CASE NativeCache /\ s \in drawn
    BY <1>2, <1>3, <2>1 DEF EnsureNativeCache, CacheTyped
  <2>2. CASE ~(NativeCache /\ s \in drawn)
    BY <1>2, <2>2 DEF CacheTyped
  <2> QED BY <2>1, <2>2
<1>5. NativeCache => NativeCache = TRUE
  BY FlagAssumption
<1> QED BY <1>2, <1>3, <1>4, <1>5

(* A commit that does not invalidate a surface with a view leaves what it *)
(* looks like alone.                                                      *)
LEMMA UnchangedCommit ==
    ASSUME Types, Types', NEW s \in Surface, HandleCommit(s), ~Repaint(s)
    PROVE  \A m \in Member \ {"offset", "transform", "inputRgn"} : fState'[s][m] = fState[s][m]
<1>1. fPendingFields[s] \subseteq NonVisual
  BY DEF Repaint
<1>2. \A m \in Member \ {"inputRgn"} : BitOf(m) \notin NonVisual
  BY DEF Member, BitOf, NonVisual
<1> QED BY <1>1, <1>2, CommitMembers, AppliedMember

(* A commit after which the window is settled found it settled, and a view *)
(* that was not to be drawn again: a window that is shown, or gets an      *)
(* extent, is.                                                             *)
LEMMA CommitSettles ==
    ASSUME Types, NEW s \in Surface, HandleCommit(s), Settled'
    PROVE  Settled /\ (s \in view => ~Repaint(s))
<1>1. /\ ~invalid /\ ~Shows(s)
      /\ s \in view => ~Repaint(s) /\ ~FrameChanged(s)
  BY DEF HandleCommit, CommitView, Settled
<1>2. Root \in view /\ ~drawing
  BY DEF HandleCommit, Settled
<1>3. open
  BY <1>1 DEF HandleCommit, CommitView, Settled
<1>4. bounds[Root]
  <2>1. CASE s = Root
    <3>1. bounds'[Root] = HasSize(Applied(Root)) /\ bounds'[Root]
      BY <1>2, <2>1 DEF HandleCommit, CommitView, Settled, Types
    <3>2. bounds[Root] = HasSize(Applied(Root))
      BY <1>1, <1>2, <2>1 DEF FrameChanged
    <3> QED BY <3>1, <3>2
  <2>2. CASE s # Root
    <3>1. bounds'[Root] = bounds[Root]
      BY <2>2 DEF HandleCommit, CommitView, Types
    <3> QED BY <3>1 DEF Settled
  <2> QED BY <2>1, <2>2
<1> QED BY <1>1, <1>2, <1>3, <1>4 DEF Settled

LEMMA PreserveScreen ==
    ASSUME Types, Types', CacheTyped, ScreenCurrent, [Next]_vars
    PROVE  CacheTyped' /\ ScreenCurrent'
<1> USE DEF vars, surfaceVars, screenVars, windowVars, historyVars
<1>1. CASE UNCHANGED vars
  BY <1>1, ScreenKept
<1>2. ASSUME NEW b \in Buffer, CreateBuffer(b) \/ DestroyBuffer(b) \/ WriteBuffer(b)
      PROVE  CacheTyped' /\ ScreenCurrent'
  BY <1>2, ScreenKept DEF CreateBuffer, DestroyBuffer, WriteBuffer
<1>3. ASSUME NEW s \in Surface, HandleDamage(s) \/ HandleFrame(s)
      PROVE  CacheTyped' /\ ScreenCurrent'
  BY <1>3, ScreenKept DEF HandleDamage, HandleFrame
<1>4. ASSUME NEW s \in Surface, NEW b \in Buffer \cup {None}, NEW v \in Value,
             HandleAttach(s, b, v)
      PROVE  CacheTyped' /\ ScreenCurrent'
  BY <1>4, ScreenKept DEF HandleAttach
<1>5. ASSUME NEW s \in Surface, NEW m \in Member \ {"buffer"}, NEW v \in Value,
             SetPending(s, m, v)
      PROVE  CacheTyped' /\ ScreenCurrent'
  BY <1>5, ScreenKept DEF SetPending
<1>6. ASSUME NEW c \in Child, NEW w \in Value, HandleSetPosition(c, w)
      PROVE  CacheTyped' /\ ScreenCurrent'
  <2>1. UNCHANGED <<fState, fNativeCache, windowVars, invalid, drawing, shown>>
        /\ unplaced' = unplaced \cup {c}
    BY <1>6 DEF HandleSetPosition
  <2>2. \A s \in Surface : Pictured(s) => Pictured(s)'
    BY <2>1, PicturedKept
  <2>3. \A s \in Surface \ {c} : Origin(s)' = Origin(s)
    BY <1>6 DEF HandleSetPosition, Origin, Types, Surface
  <2>4. \A s \in Surface : Placed(s) => Placed(s)'
    BY <2>1, <2>3 DEF Placed
  <2> QED BY <2>1, <2>2, <2>4 DEF CacheTyped, ScreenCurrent, Settled, Types
<1>7. ASSUME NEW s \in Surface, HandleCommit(s) PROVE CacheTyped' /\ ScreenCurrent'
  <2>1. /\ UNCHANGED <<fNativeCache, position, view, drawing, shown>>
        /\ unplaced' = unplaced \ SurfaceList(s)
    BY <1>7 DEF HandleCommit, CommitView
  <2>2. CacheTyped'
    BY <2>1 DEF CacheTyped
  <2>3. ScreenCurrent'
    <3>1. SUFFICES ASSUME Settled', NEW t \in view
          PROVE  IF fState'[t].buffer = None THEN shown[t] = None
                 ELSE Pictured(t)' /\ Placed(t)'
      BY <2>1 DEF ScreenCurrent
    <3>2. t \in Surface
      BY DEF Types
    <3>3. Settled /\ (s \in view => ~Repaint(s))
      BY <1>7, <3>1, CommitSettles
    <3>4. \A m \in Member \ {"offset", "transform", "inputRgn"} : fState'[t][m] = fState[t][m]
      BY <1>7, <3>2, <3>3, UnchangedCommit, CommitMembers
    <3>5. Pictured(t) => Pictured(t)'
      BY <2>1, <3>2, <3>4, PicturedKept
    <3>6. Origin(t)' = Origin(t) /\ fState'[t].buffer = fState[t].buffer
      BY <2>1, <3>4 DEF Origin, Member
    <3>7. unplaced' = unplaced
      <4>1. CASE s = Root
        BY <2>1, <3>3, <4>1 DEF Repaint, Settled
      <4>2. CASE s # Root
        BY <2>1, <4>2 DEF SurfaceList, Types
      <4> QED BY <4>1, <4>2
    <3>8. Placed(t) => Placed(t)'
      BY <2>1, <3>6, <3>7 DEF Placed
    <3> QED BY <3>1, <3>3, <3>5, <3>6, <3>8 DEF ScreenCurrent
  <2> QED BY <2>2, <2>3
<1>8. CASE AttachWindow \/ Detach \/ BeginUpdate
  BY <1>8 DEF AttachWindow, Detach, BeginUpdate, CacheTyped, ScreenCurrent, Settled, Types
<1>9. CASE Draw /\ bounds[Root]
  <2>1. UNCHANGED <<fState, position, view, invalid, unplaced>>
    BY <1>9 DEF Draw
  <2>2. CacheTyped'
    BY <1>9, DrawShows DEF CacheTyped
  <2>3. ASSUME NEW s \in Surface, fState[s].buffer # None
        PROVE  Pictured(s)' /\ Placed(s)'
    <3>1. PICK v \in 0 .. MaxWrite, cached \in {FALSE, NativeCache} :
            shown'[s] = Picture(s, v, cached)
      BY <1>9, <2>3, DrawShows
    <3>2. Picture(s, v, cached)' = Picture(s, v, cached) /\ Origin(s)' = Origin(s)
      BY <2>1 DEF Picture, Origin
    <3>3. /\ shown'[s].origin = Origin(s)
          /\ shown'[s] = [Picture(s, v, cached) EXCEPT !.origin = Origin(s)]
      BY <3>1 DEF Picture
    <3> QED BY <3>2, <3>3, OriginType DEF Pictured, Placed
  <2>4. \A s \in Surface : fState[s].buffer = None => shown'[s] = None
    BY <1>9, DrawShows
  <2> QED BY <2>1, <2>2, <2>3, <2>4 DEF ScreenCurrent, Types
<1>10. CASE Draw /\ ~bounds[Root]
  BY <1>10 DEF Draw, CacheTyped, ScreenCurrent, Settled
<1> QED BY <1>1, <1>2, <1>3, <1>4, <1>5, <1>6, <1>7, <1>8, <1>9, <1>10, RequestsTyped DEF Next

(* With no Draw owed or under way the screen shows what was committed, for  *)
(* any number of subsurfaces, with and without the native cache.            *)
THEOREM ScreenShowsCommits == Spec => []ScreenCurrent
<1>1. Init => CacheTyped /\ ScreenCurrent
  BY DEF Init, CacheTyped, ScreenCurrent, Settled
<1>2. IInv => Types
  BY DEF IInv
<1>3. Types /\ Types' /\ CacheTyped /\ ScreenCurrent /\ [Next]_vars => CacheTyped' /\ ScreenCurrent'
  BY PreserveScreen
<1> QED BY <1>1, <1>2, <1>3, CountsInvariant, PTL DEF Spec
-----------------------------------------------------------------------------
(* Content *)

(* A new buffer counts as new content. *)
AttachIsContent == \A s \in Surface : "buffer" \in fPendingFields[s] => fContentChanged[s]

(* Pixels are never older than what was committed. *)
PixelsAfterCommit == \A s \in Surface :
    fState[s].buffer # None => committed[s] <= pixels[fState[s].buffer]

(* A copy that would still be used shows what was committed. *)
CacheFresh == \A s \in Surface : fNativeCache[s] # None =>
    /\ fNativeCache[s].version \in Nat /\ fNativeCache[s].serial \in Nat
    /\ fNativeCache[s].serial <= fContentSerial[s]
    /\ fNativeCache[s].serial = fContentSerial[s] /\ fState[s].buffer # None =>
         fNativeCache[s].version >= committed[s]

ContentInv == AttachIsContent /\ PixelsAfterCommit /\ CacheFresh /\ ContentShown

LEMMA ContentKept ==
    ASSUME Types, ContentInv,
           UNCHANGED <<fState, fContentSerial, fNativeCache, windowVars, invalid, drawing, shown,
                       pixels, committed>>,
           AttachIsContent'
    PROVE  ContentInv'
BY DEF ContentInv, AttachIsContent, PixelsAfterCommit, CacheFresh, ContentShown, Settled, windowVars

LEMMA CommitContentKept ==
    ASSUME Types, Types', ContentInv, NEW s \in Surface, HandleCommit(s)
    PROVE  ContentInv'
<1>1. /\ \A t \in Surface \ {s} : /\ fState'[t] = fState[t]
                                  /\ fPendingFields'[t] = fPendingFields[t]
                                  /\ fContentChanged'[t] = fContentChanged[t]
                                  /\ fContentSerial'[t] = fContentSerial[t]
                                  /\ committed'[t] = committed[t]
      /\ UNCHANGED <<fNativeCache, view, drawing, shown, pixels>>
  BY CommitMembers DEF HandleCommit, CommitContent, Types
<1>2. fPendingFields'[s] = {} /\ fState'[s].buffer = Applied(s).buffer
  BY CommitMembers DEF Member
<1>3. CASE fContentChanged[s]
  <2>1. fContentSerial'[s] = fContentSerial[s] + 1
    BY <1>3 DEF HandleCommit, CommitContent, One, Types
  <2>2. Applied(s).buffer # None => committed'[s] = pixels[Applied(s).buffer]
    BY <1>3 DEF HandleCommit, CommitContent, Types
  <2>3. Settled' => s \notin view
    BY <1>3, CommitSettles DEF Repaint
  <2>4. Settled' => Settled
    BY CommitSettles
  <2>5. Applied(s).buffer # None => pixels[Applied(s).buffer] \in Nat
    BY AppliedType DEF Types, StateOf
  <2>6. AttachIsContent' /\ PixelsAfterCommit'
    BY <1>1, <1>2, <2>2, <2>5 DEF ContentInv, AttachIsContent, PixelsAfterCommit
  <2>7. CacheFresh'
    <3>1. \A t \in Surface \ {s} : fState'[t] = fState[t] /\ committed'[t] = committed[t]
                                /\ fContentSerial'[t] = fContentSerial[t]
      BY <1>1
    <3>2. fNativeCache[s] # None => /\ fNativeCache[s].serial \in Nat
                                    /\ fNativeCache[s].version \in Nat
                                    /\ fNativeCache[s].serial < fContentSerial'[s]
      BY <2>1 DEF ContentInv, CacheFresh, Types
    <3>3. fNativeCache' = fNativeCache
      BY <1>1
    <3>4. fContentSerial'[s] \in Nat
      BY DEF Types
    <3> QED BY <3>1, <3>2, <3>3, <3>4 DEF ContentInv, CacheFresh
  <2>8. ContentShown'
    BY <1>1, <2>3, <2>4 DEF ContentInv, ContentShown, Types
  <2> QED BY <2>6, <2>7, <2>8 DEF ContentInv
<1>4. CASE ~fContentChanged[s]
  <2>1. fState'[s].buffer = fState[s].buffer
    BY <1>2, <1>4, AppliedType DEF ContentInv, AttachIsContent
  <2>2. fContentSerial'[s] = fContentSerial[s] /\ committed'[s] = committed[s]
    BY <1>4 DEF HandleCommit, CommitContent, One, Types
  <2>3. Settled' => Settled
    BY CommitSettles
  <2>4. AttachIsContent' /\ PixelsAfterCommit'
    BY <1>1, <1>2, <2>1, <2>2 DEF ContentInv, AttachIsContent, PixelsAfterCommit
  <2>5. CacheFresh'
    BY <1>1, <2>1, <2>2 DEF ContentInv, CacheFresh
  <2>6. ContentShown'
    BY <1>1, <2>1, <2>2, <2>3 DEF ContentInv, ContentShown, Types
  <2> QED BY <2>4, <2>5, <2>6 DEF ContentInv
<1> QED BY <1>3, <1>4

(* Draw renders the copy anew unless it shows what was committed. *)
LEMMA DrawContent == ASSUME Types, ContentInv, Draw, bounds[Root] PROVE ContentInv'
<1> DEFINE drawn == {t \in Surface : fState[t].buffer # None}
<1>1. PICK allocates \in IF NativeCache THEN BOOLEAN ELSE {FALSE} :
        LET cache == [t \in Surface |->
                IF NativeCache /\ t \in drawn THEN EnsureNativeCache(t, allocates)
                ELSE fNativeCache[t]]
        IN  /\ fNativeCache' = cache
            /\ shown' = [t \in Surface |->
                   IF t \notin drawn THEN None
                   ELSE IF NativeCache /\ cache[t] # None
                   THEN Picture(t, cache[t].version, TRUE)
                   ELSE Picture(t, pixels[fState[t].buffer], FALSE)]
  BY DEF Draw, DrawSurfaceTree
<1>2. UNCHANGED <<surfaceVars, view, invalid, pixels, committed>>
  BY DEF Draw, windowVars, bufferVars, historyVars
<1>3. ASSUME NEW s \in Surface
      PROVE  /\ fNativeCache'[s] = IF NativeCache /\ s \in drawn
                                   THEN EnsureNativeCache(s, allocates) ELSE fNativeCache[s]
             /\ shown'[s] = IF s \notin drawn THEN None
                            ELSE IF NativeCache /\ fNativeCache'[s] # None
                            THEN Picture(s, fNativeCache'[s].version, TRUE)
                            ELSE Picture(s, pixels[fState[s].buffer], FALSE)
  BY <1>1
<1>4. \A s \in Surface : s \in drawn =>
        /\ pixels[fState[s].buffer] \in Nat /\ committed[s] \in Nat
        /\ pixels[fState[s].buffer] >= committed[s]
  BY BoundAssumption DEF Types, StateOf, ContentInv, PixelsAfterCommit
<1>5. ASSUME NEW s \in Surface, fNativeCache'[s] # None
      PROVE  /\ fNativeCache'[s].version \in Nat /\ fNativeCache'[s].serial \in Nat
             /\ fNativeCache'[s].serial <= fContentSerial[s]
             /\ fNativeCache'[s].serial = fContentSerial[s] /\ s \in drawn =>
                  fNativeCache'[s].version >= committed[s]
             /\ NativeCache /\ s \in drawn => fNativeCache'[s].version >= committed[s]
  <2>1. CASE ~(NativeCache /\ s \in drawn)
    BY <1>3, <1>5, <2>1 DEF ContentInv, CacheFresh
  <2>2. CASE NativeCache /\ s \in drawn /\ CacheHit(s)
    <3>1. fNativeCache'[s] = fNativeCache[s]
      BY <1>3, <2>2 DEF EnsureNativeCache
    <3> QED BY <1>5, <2>2, <3>1 DEF ContentInv, CacheFresh, CacheHit
  <2>3. CASE NativeCache /\ s \in drawn /\ ~CacheHit(s)
    <3>1. fNativeCache'[s] = [serial |-> fContentSerial[s], key |-> CacheKey(s),
                              version |-> pixels[fState[s].buffer]]
      BY <1>3, <1>5, <2>3 DEF EnsureNativeCache
    <3>2. fContentSerial[s] \in Nat
      BY DEF Types
    <3> QED BY <1>4, <2>3, <3>1, <3>2
  <2> QED BY <2>1, <2>2, <2>3
<1>6. CacheFresh'
  BY <1>2, <1>5 DEF CacheFresh, surfaceVars
<1>7. ASSUME NEW s \in Surface, s \in drawn PROVE shown'[s].version >= committed[s]
  <2>1. CASE NativeCache /\ fNativeCache'[s] # None
    <3>1. shown'[s].version = fNativeCache'[s].version
      <4>1. shown'[s] = Picture(s, fNativeCache'[s].version, TRUE)
        BY <1>3, <1>7, <2>1
      <4>2. Picture(s, fNativeCache'[s].version, TRUE).version = fNativeCache'[s].version
        BY DEF Picture
      <4> QED BY <4>1, <4>2, Zenon
    <3> QED BY <1>5, <1>7, <2>1, <3>1
  <2>2. CASE ~(NativeCache /\ fNativeCache'[s] # None)
    <3>1. shown'[s].version = pixels[fState[s].buffer]
      <4>1. shown'[s] = Picture(s, pixels[fState[s].buffer], FALSE)
        BY <1>3, <1>7, <2>2
      <4>2. Picture(s, pixels[fState[s].buffer], FALSE).version = pixels[fState[s].buffer]
        BY DEF Picture
      <4> QED BY <4>1, <4>2, Zenon
    <3> QED BY <1>4, <1>7, <3>1
  <2> QED BY <2>1, <2>2
<1>8. ContentShown'
  BY <1>2, <1>7 DEF ContentShown, Types, surfaceVars
<1> QED BY <1>2, <1>6, <1>8 DEF ContentInv, AttachIsContent, PixelsAfterCommit, surfaceVars

LEMMA PreserveContent == ASSUME Types, Types', ContentInv, [Next]_vars PROVE ContentInv'
<1> USE DEF vars, surfaceVars, screenVars, windowVars, bufferVars, historyVars
<1>1. CASE UNCHANGED vars
  BY <1>1, ContentKept DEF ContentInv, AttachIsContent
<1>2. ASSUME NEW b \in Buffer, CreateBuffer(b) \/ DestroyBuffer(b) PROVE ContentInv'
  BY <1>2, ContentKept DEF CreateBuffer, DestroyBuffer, ContentInv, AttachIsContent
<1>3. ASSUME NEW b \in Buffer, WriteBuffer(b) PROVE ContentInv'
  <2>1. \A c \in Buffer : pixels[c] \in Nat /\ pixels'[c] \in Nat /\ pixels[c] <= pixels'[c]
    BY <1>3, BoundAssumption DEF WriteBuffer, Types
  <2>2. PixelsAfterCommit'
    BY <1>3, <2>1 DEF WriteBuffer, ContentInv, PixelsAfterCommit, Types, StateOf
  <2>3. AttachIsContent' /\ CacheFresh'
    BY <1>3 DEF WriteBuffer, ContentInv, AttachIsContent, CacheFresh
  <2>4. ContentShown'
    BY <1>3 DEF WriteBuffer, ContentInv, ContentShown, Settled
  <2> QED BY <2>2, <2>3, <2>4 DEF ContentInv
<1>4. ASSUME NEW s \in Surface, HandleDamage(s) \/ HandleFrame(s) PROVE ContentInv'
  BY <1>4, ContentKept DEF HandleDamage, HandleFrame, ContentInv, AttachIsContent, Types
<1>5. ASSUME NEW s \in Surface, NEW b \in Buffer \cup {None}, NEW v \in Value,
             HandleAttach(s, b, v)
      PROVE  ContentInv'
  BY <1>5, ContentKept DEF HandleAttach, ContentInv, AttachIsContent, Types
<1>6. ASSUME NEW s \in Surface, NEW m \in Member \ {"buffer"}, NEW v \in Value,
             SetPending(s, m, v)
      PROVE  ContentInv'
  <2>1. BitOf(m) # "buffer"
    BY AskedAssumption DEF BitOf
  <2> QED BY <1>6, <2>1, ContentKept DEF SetPending, ContentInv, AttachIsContent, Types
<1>7. ASSUME NEW c \in Child, NEW v \in Value, HandleSetPosition(c, v) PROVE ContentInv'
  BY <1>7, ContentKept DEF HandleSetPosition, ContentInv, AttachIsContent
<1>8. ASSUME NEW s \in Surface, HandleCommit(s) PROVE ContentInv'
  BY <1>8, CommitContentKept
<1>9. CASE AttachWindow \/ Detach \/ BeginUpdate
  BY <1>9 DEF AttachWindow, Detach, BeginUpdate, ContentInv, AttachIsContent, PixelsAfterCommit,
              CacheFresh, ContentShown, Settled, Types
<1>10. CASE Draw /\ bounds[Root]
  BY <1>10, DrawContent
<1>11. CASE Draw /\ ~bounds[Root]
  BY <1>11 DEF Draw, ContentInv, AttachIsContent, PixelsAfterCommit, CacheFresh, ContentShown,
               Settled
<1> QED BY <1>1, <1>2, <1>3, <1>4, <1>5, <1>6, <1>7, <1>8, <1>9, <1>10, <1>11, RequestsTyped DEF Next

(* What was written before a commit with content is on the screen once no   *)
(* Draw is owed, also through the native cache.                             *)
THEOREM CommittedContentShown == Spec => []ContentShown
<1>1. Init => ContentInv
  <2> SUFFICES ASSUME Init PROVE ContentInv
    OBVIOUS
  <2>1. \A s \in Surface : fState[s].buffer = None
    BY DEF Init, Member
  <2> QED BY <2>1 DEF Init, ContentInv, AttachIsContent, PixelsAfterCommit, CacheFresh, ContentShown
<1>2. IInv => Types
  BY DEF IInv
<1>3. Types /\ Types' /\ ContentInv /\ [Next]_vars => ContentInv'
  BY PreserveContent
<1>4. ContentInv => ContentShown
  BY DEF ContentInv
<1> QED BY <1>1, <1>2, <1>3, <1>4, CountsInvariant, PTL DEF Spec
=============================================================================
