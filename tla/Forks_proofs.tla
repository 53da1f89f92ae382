---------------------------- MODULE Forks_proofs ----------------------------
(***************************************************************************)
(* Proofs about the pallet on a chain that forks, for trees of any size,   *)
(* any number of payloads, any prices and any calculator.                  *)
(***************************************************************************)
EXTENDS Forks, PriceRound_proofs

Parcel == [payload: Payload, home: Nat]
Update == [of: Parcel, before: [Pair -> PricePath \cup {None}]]
Block  == [number: Nat, parent: Nat, line: SUBSET Nat, state: StateType, updates: Seq(Update)]

Known == 0 .. Len(tree)

(* The block being built is taken for the next one of the tree, with the   *)
(* state it has so far.                                                    *)
ParentOf(x) == IF x \in DOMAIN tree THEN tree[x].parent ELSE parent
NonceAt(x)  == IF x \in DOMAIN tree THEN tree[x].state.nonce ELSE UnsignedTxNonce

-----------------------------------------------------------------------------
(* The inductive invariant                                                 *)

Typed ==
  /\ PalletTypeOK
  /\ MonitoredPairs \subseteq MonitorablePair
  /\ tree \in Seq(Block)
  /\ updates \in Seq(Update)
  /\ sent \subseteq Parcel

Linked ==
  /\ parent \in Known
  /\ block_number = NumberOf(parent) + 1
  /\ \A x \in DOMAIN tree :
       /\ tree[x].parent \in 0 .. x - 1
       /\ tree[x].number = NumberOf(tree[x].parent) + 1
       /\ tree[x].line = {x} \cup Line(tree[x].parent)

(* Of two blocks on a line, one stands on the other.                       *)
LinesAreChains ==
  \A x \in Known :
     /\ x \in Line(x) /\ Line(x) \subseteq 0 .. x
     /\ \A y, z \in Line(x) : y <= z => y \in Line(z)

(* Along a line the nonce is a version number of BestPaths.                *)
NonceIsVersion ==
  /\ \A x \in Known : \A y \in Line(x) :
       /\ StateOf(y).nonce <= StateOf(x).nonce
       /\ StateOf(y).nonce = StateOf(x).nonce => StateOf(y).best = StateOf(x).best
  /\ \A y \in Line(parent) :
       /\ StateOf(y).nonce <= UnsignedTxNonce
       /\ StateOf(y).nonce = UnsignedTxNonce => StateOf(y).best = BestPaths

PayloadsAreDifferences ==
  \A m \in sent :
     /\ m.home \in DOMAIN tree
     /\ m.payload.block_number = NumberOf(m.home)
     /\ m.payload.nonce = StateOf(m.home).nonce
     /\ m.payload.changes \in Differences(StateOf(m.home).best)

(* The nonces count the updates of a line.                                 *)
UpdatesAreCounted ==
  \A x \in Built :
     /\ NonceAt(x) = StateOf(ParentOf(x)).nonce + Len(UpdatesIn(x))
     /\ \A i \in DOMAIN UpdatesIn(x) :
          UpdatesIn(x)[i].of.payload.nonce = StateOf(ParentOf(x)).nonce + i - 1

UpdatesFit ==
  \A x \in Built : \A i \in DOMAIN UpdatesIn(x) :
     /\ UpdatesIn(x)[i].of \in sent
     /\ UpdatesIn(x)[i].of.home \in BranchOf(x) =>
          UpdatesIn(x)[i].before = StateOf(UpdatesIn(x)[i].of.home).best

TreeInv == Typed /\ Linked /\ LinesAreChains /\ NonceIsVersion

IInv == TreeInv /\ PayloadsAreDifferences /\ UpdatesAreCounted /\ UpdatesFit

-----------------------------------------------------------------------------
(* Facts about the tree                                                    *)

(* The state at genesis has the type of a state.                           *)
LEMMA GenesisType == GenesisState \in StateType
  BY DEF GenesisState, StateType

(* The blocks of the tree have their type, and so do their states and      *)
(* numbers.                                                                *)
LEMMA BlockFacts ==
  ASSUME Typed
  PROVE  /\ Len(tree) \in Nat /\ DOMAIN tree = 1 .. Len(tree)
         /\ \A x \in DOMAIN tree : tree[x] \in Block
         /\ \A x \in Known : StateOf(x) \in StateType /\ NumberOf(x) \in Nat
  <1>1. /\ Len(tree) \in Nat /\ DOMAIN tree = 1 .. Len(tree)
        /\ \A x \in DOMAIN tree : tree[x] \in Block
        BY SeqElement DEF Typed
  <1>2. \A x \in Known : x = 0 \/ x \in DOMAIN tree
        BY <1>1 DEF Known
  <1> QED
      BY <1>1, <1>2, GenesisType DEF StateOf, NumberOf, Block

(* The updates of a block are a list of updates.                           *)
LEMMA UpdatesType ==
  ASSUME Typed, NEW x
  PROVE  UpdatesIn(x) \in Seq(Update)
  BY BlockFacts DEF UpdatesIn, Typed, Block

(* A branch is its last block and the line of the parent of that.          *)
LEMMA BranchIsLine ==
  ASSUME Typed, Linked, NEW x \in Built
  PROVE  /\ ParentOf(x) \in Known /\ ParentOf(x) < x
         /\ BranchOf(x) = {x} \cup Line(ParentOf(x))
  <1>1. CASE x \in DOMAIN tree
    <2>1. x # Len(tree) + 1 /\ x # 0
          BY <1>1, BlockFacts
    <2>2. /\ ParentOf(x) = tree[x].parent /\ BranchOf(x) = tree[x].line
          /\ tree[x].parent \in 0 .. x - 1 /\ tree[x].line = {x} \cup Line(tree[x].parent)
          BY <1>1, <2>1 DEF Linked, ParentOf, BranchOf, Line
    <2>3. x \in 1 .. Len(tree) /\ Len(tree) \in Nat
          BY <1>1, BlockFacts
    <2> QED
        BY <2>2, <2>3 DEF Known
  <1>2. CASE x \notin DOMAIN tree
    <2>1. x = Len(tree) + 1
          BY <1>2, BlockFacts DEF Built
    <2> QED
        BY <1>2, <2>1, BlockFacts DEF Linked, ParentOf, BranchOf, Known
  <1> QED
      BY <1>1, <1>2

(* What sealing the block and going on from x does to the tree.            *)
LEMMA Seals ==
  ASSUME Typed, Linked, NEW x \in 0 .. Len(tree) + 1, BuildOn(x)
  PROVE  /\ tree' \in Seq(Block) /\ Len(tree') = Len(tree) + 1
         /\ DOMAIN tree' = 1 .. Len(tree) + 1
         /\ \A y \in DOMAIN tree : tree'[y] = tree[y]
         /\ tree'[Len(tree) + 1] =
              [number |-> block_number, parent |-> parent,
               line |-> {Len(tree) + 1} \cup Line(parent),
               state |-> CurrentState, updates |-> updates]
  <1> DEFINE sealed == [number |-> block_number, parent |-> parent,
                        line |-> {Len(tree) + 1} \cup Line(parent),
                        state |-> CurrentState, updates |-> updates]
  <1>1. tree' = Append(tree, sealed)
        BY DEF BuildOn
  <1>2. CurrentState \in StateType
        BY DEF Typed, PalletTypeOK, CurrentState, StateType
  <1>3. Line(parent) \in SUBSET Nat
    <2>1. parent = 0 \/ parent \in DOMAIN tree
          BY BlockFacts DEF Linked, Known
    <2> QED
        BY <2>1, BlockFacts DEF Line, Block
  <1>4. sealed \in Block
    <2>1. block_number \in Nat /\ parent \in Nat /\ Len(tree) \in Nat
          BY BlockFacts DEF Typed, Linked, Known, PalletTypeOK
    <2> QED
        BY <1>2, <1>3, <2>1 DEF Block, Typed
  <1> HIDE DEF sealed
  <1>5. tree \in Seq(Block)
        BY DEF Typed
  <1> QED
      BY <1>1, <1>4, <1>5 DEF sealed

(* Seen from the blocks, the tree only grows; the new block is what was    *)
(* being built.                                                            *)
LEMMA Grows ==
  ASSUME Typed, Linked, NEW x \in 0 .. Len(tree) + 1, BuildOn(x),
         NEW k, k = Len(tree) + 1
  PROVE  /\ \A y \in Known : /\ StateOf(y)' = StateOf(y)
                             /\ NumberOf(y)' = NumberOf(y)
                             /\ Line(y)' = Line(y)
         /\ StateOf(k)' = CurrentState
         /\ NumberOf(k)' = block_number
         /\ Line(k)' = {k} \cup Line(parent)
         /\ \A y \in Built : /\ UpdatesIn(y)' = UpdatesIn(y)
                             /\ ParentOf(y)' = ParentOf(y)
                             /\ NonceAt(y)' = NonceAt(y)
                             /\ BranchOf(y)' = BranchOf(y)
         /\ Known' = Known \cup {k}
         /\ Built' = Built \cup {k + 1}
  <1>1. /\ Len(tree) \in Nat /\ DOMAIN tree = 1 .. Len(tree)
        /\ DOMAIN tree' = 1 .. k /\ Len(tree') = k
        /\ \A y \in DOMAIN tree : tree'[y] = tree[y]
        /\ tree'[k].state = CurrentState /\ tree'[k].number = block_number
        /\ tree'[k].line = {k} \cup Line(parent)
        /\ tree'[k].parent = parent /\ tree'[k].updates = updates
        BY BlockFacts, Seals
  <1>2. \A y \in Known : y = 0 \/ (y \in DOMAIN tree /\ y # 0)
        BY <1>1 DEF Known
  <1>3. ASSUME NEW y \in Built
        PROVE  y \in DOMAIN tree' /\ (y \in DOMAIN tree \/ (y = k /\ k \notin DOMAIN tree))
        BY <1>1 DEF Built
  <1>4. k # 0 /\ k \in DOMAIN tree'
        BY <1>1
  <1>5. Known' = Known \cup {k} /\ Built' = Built \cup {k + 1}
        BY <1>1 DEF Known, Built
  <1>6. \A y \in Known : /\ StateOf(y)' = StateOf(y)
                         /\ NumberOf(y)' = NumberOf(y)
                         /\ Line(y)' = Line(y)
        BY <1>1, <1>2 DEF StateOf, NumberOf, Line, GenesisState
  <1>7. /\ StateOf(k)' = CurrentState /\ NumberOf(k)' = block_number
        /\ Line(k)' = {k} \cup Line(parent)
        BY <1>1, <1>4 DEF StateOf, NumberOf, Line
  <1>8. ASSUME NEW y \in Built
        PROVE  /\ UpdatesIn(y)' = UpdatesIn(y)
               /\ ParentOf(y)' = ParentOf(y)
               /\ NonceAt(y)' = NonceAt(y)
               /\ BranchOf(y)' = BranchOf(y)
    <2>1. CASE y \in DOMAIN tree
      <3>1. y \in Known /\ y # Len(tree) + 1 /\ y # Len(tree') + 1
            BY <1>1, <2>1 DEF Known
      <3>2. BranchOf(y)' = BranchOf(y)
            BY <1>6, <3>1 DEF BranchOf
      <3> QED
          BY <1>1, <1>3, <2>1, <3>2 DEF UpdatesIn, ParentOf, NonceAt
    <2>2. CASE y = k /\ k \notin DOMAIN tree
      <3>1. y = Len(tree) + 1 /\ y # Len(tree') + 1
            BY <1>1, <2>2
      <3>2. BranchOf(y) = {k} \cup Line(parent) /\ BranchOf(y)' = Line(k)'
            BY <2>2, <3>1 DEF BranchOf, Line
      <3>3. BranchOf(y)' = BranchOf(y)
            BY <1>7, <3>2
      <3>4. UpdatesIn(y)' = UpdatesIn(y) /\ ParentOf(y)' = ParentOf(y) /\ NonceAt(y)' = NonceAt(y)
            BY <1>1, <1>3, <2>2 DEF UpdatesIn, ParentOf, NonceAt, CurrentState
      <3> QED
          BY <3>3, <3>4
    <2> QED
        BY <1>3, <2>1, <2>2
  <1> QED
      BY <1>5, <1>6, <1>7, <1>8

(* The next block starts from the state of the block it stands on.         *)
LEMMA Starts ==
  ASSUME Typed, Linked, NEW x \in 0 .. Len(tree) + 1, BuildOn(x)
  PROVE  /\ parent' = x /\ x \in Known'
         /\ NumberOf(x)' < MaxBlock /\ block_number' = NumberOf(x)' + 1
         /\ BestPaths' = StateOf(x)'.best /\ MonitoredPairs' = StateOf(x)'.pairs
         /\ WhitelistedOffchainAuthorities' = StateOf(x)'.whitelist
         /\ UnsignedTxNonce' = StateOf(x)'.nonce
         /\ updates' = <<>> /\ sent' = sent
  <1>1. parent' = x /\ updates' = <<>> /\ sent' = sent
        BY DEF BuildOn
  <1>2. x \in Known' /\ (x = 0 \/ x # 0)
        BY Seals DEF Known
  <1>3. CASE x = 0
        BY <1>1, <1>2, <1>3 DEF BuildOn, StateOf, NumberOf, GenesisState
  <1>4. CASE x # 0
        BY <1>1, <1>2, <1>4 DEF BuildOn, StateOf, NumberOf
  <1> QED
      BY <1>3, <1>4

(* A sealed block, and the branch that is built on next, keep the tree     *)
(* what it is.                                                             *)
LEMMA BuildTree ==
  ASSUME TreeInv, NEW x \in 0 .. Len(tree) + 1, BuildOn(x)
  PROVE  TreeInv'
  <1>1. PICK k : k = Len(tree) + 1
        OBVIOUS
  <1>2. /\ Typed /\ Linked /\ LinesAreChains /\ NonceIsVersion
        /\ Len(tree) \in Nat /\ DOMAIN tree = 1 .. Len(tree) /\ Known = 0 .. Len(tree)
        /\ DOMAIN tree' = DOMAIN tree \cup {k} /\ parent \in Known
        /\ \A y \in DOMAIN tree : tree'[y] = tree[y]
        /\ tree'[k].number = block_number /\ tree'[k].parent = parent
        /\ tree'[k].line = {k} \cup Line(parent)
        /\ tree' \in Seq(Block)
    <2>1. /\ Typed /\ Linked /\ LinesAreChains /\ NonceIsVersion
          /\ parent \in Known /\ Known = 0 .. Len(tree)
          BY DEF TreeInv, Linked, Known
    <2>2. Len(tree) \in Nat /\ DOMAIN tree = 1 .. Len(tree)
          BY <2>1, BlockFacts
    <2>3. /\ tree' \in Seq(Block) /\ DOMAIN tree' = 1 .. Len(tree) + 1
          /\ \A y \in DOMAIN tree : tree'[y] = tree[y]
          /\ tree'[k] = [number |-> block_number, parent |-> parent,
                         line |-> {k} \cup Line(parent),
                         state |-> CurrentState, updates |-> updates]
          BY <1>1, <2>1, Seals
    <2>4. DOMAIN tree' = DOMAIN tree \cup {k}
          BY <1>1, <2>2, <2>3
    <2>5. /\ tree'[k].number = block_number /\ tree'[k].parent = parent
          /\ tree'[k].line = {k} \cup Line(parent)
          BY <2>3
    <2> QED
        BY <2>1, <2>2, <2>3, <2>4, <2>5
  <1>3. /\ \A y \in Known : StateOf(y)' = StateOf(y) /\ NumberOf(y)' = NumberOf(y) /\ Line(y)' = Line(y)
        /\ StateOf(k)' = CurrentState /\ NumberOf(k)' = block_number
        /\ Line(k)' = {k} \cup Line(parent)
        /\ Known' = Known \cup {k}
        BY <1>1, <1>2, Grows
  <1>4. /\ parent' = x /\ x \in Known'
        /\ NumberOf(x)' < MaxBlock /\ block_number' = NumberOf(x)' + 1
        /\ BestPaths' = StateOf(x)'.best /\ MonitoredPairs' = StateOf(x)'.pairs
        /\ WhitelistedOffchainAuthorities' = StateOf(x)'.whitelist
        /\ UnsignedTxNonce' = StateOf(x)'.nonce
        /\ updates' = <<>> /\ sent' = sent
        BY <1>2, Starts
  <1>5. CurrentState \in StateType
        BY <1>2 DEF Typed, PalletTypeOK, CurrentState, StateType
  <1>6. \A y \in Known' : StateOf(y)' \in StateType /\ NumberOf(y)' \in Nat
        BY <1>2, <1>3, <1>5, BlockFacts DEF Typed, PalletTypeOK
  <1>7. Typed'
    <2>1. block_number' \in 1 .. MaxBlock
          BY <1>4, <1>6, MaxBlockAssumption
    <2>2. StateOf(x)' \in StateType
          BY <1>4, <1>6
    <2>3. PalletTypeOK' /\ MonitoredPairs' \subseteq MonitorablePair
          BY <1>4, <2>1, <2>2, MonitorableIsProviderPair DEF PalletTypeOK, StateType
    <2>4. updates' \in Seq(Update)
          BY <1>4
    <2> QED
        BY <1>2, <1>4, <2>3, <2>4 DEF Typed
  <1>8. \A y \in DOMAIN tree : tree[y].parent \in Known /\ tree[y].parent \in 0 .. y - 1
        BY <1>2 DEF Linked
  <1>9. Linked'
    <2>1. ASSUME NEW y \in DOMAIN tree'
          PROVE  \E z \in Known : /\ z = tree'[y].parent /\ z \in 0 .. y - 1
                                  /\ tree'[y].number = NumberOf(z)' + 1
                                  /\ tree'[y].line = {y} \cup Line(z)'
      <3>1. CASE y \in DOMAIN tree
        <4>1. PICK z \in Known : z = tree[y].parent
              BY <1>8, <3>1
        <4>2. /\ tree[y].number = NumberOf(z) + 1 /\ tree[y].line = {y} \cup Line(z)
              /\ z \in 0 .. y - 1
              BY <1>2, <3>1, <4>1 DEF Linked
        <4>3. NumberOf(z)' = NumberOf(z) /\ Line(z)' = Line(z)
              BY <1>3
        <4> QED
            BY <1>2, <3>1, <4>1, <4>2, <4>3
      <3>2. CASE y = k
        <4>1. PICK z \in Known : z = parent
              BY <1>2
        <4>2. NumberOf(z)' = NumberOf(z) /\ Line(z)' = Line(z)
              BY <1>3
        <4>3. /\ tree'[y].parent = z /\ z \in 0 .. y - 1
              /\ tree'[y].number = NumberOf(z) + 1
              /\ tree'[y].line = {y} \cup Line(z)
              BY <1>1, <1>2, <3>2, <4>1 DEF Linked
        <4> QED
            BY <4>2, <4>3
      <3> QED
          BY <1>2, <3>1, <3>2
    <2>2. \A y \in DOMAIN tree' :
            /\ tree'[y].parent \in 0 .. y - 1
            /\ tree'[y].number = (IF tree'[y].parent = 0 THEN 0 ELSE tree'[tree'[y].parent].number) + 1
            /\ tree'[y].line = {y} \cup (IF tree'[y].parent = 0 THEN {0} ELSE tree'[tree'[y].parent].line)
          BY <2>1 DEF NumberOf, Line
    <2>3. block_number' = (IF parent' = 0 THEN 0 ELSE tree'[parent'].number) + 1
          BY <1>4 DEF NumberOf
    <2> QED
        BY <1>4, <2>2, <2>3 DEF Linked, NumberOf, Line
  <1>10. LinesAreChains'
    <2> SUFFICES ASSUME NEW v \in Known'
                 PROVE  /\ v \in Line(v)' /\ Line(v)' \subseteq 0 .. v
                        /\ \A y, z \in Line(v)' : y <= z => y \in Line(z)'
        BY DEF LinesAreChains
    <2>1. CASE v \in Known
      <3>1. \A z \in Line(v) : z \in Known
            BY <1>2, <2>1 DEF LinesAreChains
      <3> QED
          BY <1>2, <1>3, <2>1, <3>1 DEF LinesAreChains
    <2>2. CASE v = k
      <3>1. Line(parent) \subseteq 0 .. parent /\ parent < k /\ parent \in Nat /\ k \in Nat
            BY <1>1, <1>2 DEF LinesAreChains
      <3>2. ASSUME NEW y \in {k} \cup Line(parent), NEW z \in {k} \cup Line(parent), y <= z
            PROVE  y \in Line(z)'
        <4>1. CASE z = k
              BY <1>3, <4>1
        <4>2. CASE z # k
          <5>1. z \in Line(parent) /\ z \in Known /\ y \in Line(parent)
                BY <1>1, <1>2, <3>1, <3>2, <4>2
          <5>2. y \in Line(z)
                BY <1>2, <3>2, <5>1 DEF LinesAreChains
          <5> QED
              BY <1>3, <5>1, <5>2
        <4> QED
            BY <4>1, <4>2
      <3>3. {k} \cup Line(parent) \subseteq 0 .. k
            BY <3>1
      <3> QED
          BY <1>3, <2>2, <3>2, <3>3
    <2> QED
        BY <1>3, <2>1, <2>2
  <1>11. NonceIsVersion'
    <2>1. ASSUME NEW v \in Known', NEW y \in Line(v)'
          PROVE  /\ StateOf(y)'.nonce <= StateOf(v)'.nonce
                 /\ StateOf(y)'.nonce = StateOf(v)'.nonce => StateOf(y)'.best = StateOf(v)'.best
      <3>1. CASE v \in Known
        <4>1. y \in Line(v) /\ y \in Known
              BY <1>2, <1>3, <2>1, <3>1 DEF LinesAreChains
        <4> QED
            BY <1>2, <1>3, <3>1, <4>1 DEF NonceIsVersion
      <3>2. CASE v = k /\ y # k
        <4>1. y \in Line(parent) /\ y \in Known
              BY <1>2, <1>3, <2>1, <3>2 DEF LinesAreChains
        <4> QED
            BY <1>2, <1>3, <3>2, <4>1 DEF NonceIsVersion, CurrentState
      <3>3. CASE v = k /\ y = k
        <4>1. StateOf(k)'.nonce \in Nat
              BY <1>3, <1>6 DEF StateType
        <4> QED
            BY <3>3, <4>1
      <3> QED
          BY <1>3, <3>1, <3>2, <3>3
    <2>2. ASSUME NEW y \in Line(x)'
          PROVE  /\ StateOf(y)'.nonce <= UnsignedTxNonce'
                 /\ StateOf(y)'.nonce = UnsignedTxNonce' => StateOf(y)'.best = BestPaths'
          BY <1>4, <2>1
    <2>3. Line(parent)' = Line(x)'
          BY <1>4 DEF Line
    <2> QED
        BY <2>1, <2>2, <2>3 DEF NonceIsVersion
  <1> QED
      BY <1>7, <1>9, <1>10, <1>11 DEF TreeInv

(* Sealing a block keeps the invariant, whichever block is built on next.  *)
LEMMA BuildStep ==
  ASSUME IInv, NEW x \in 0 .. Len(tree) + 1, BuildOn(x)
  PROVE  IInv'
  <1>1. PICK k : k = Len(tree) + 1
        OBVIOUS
  <1>2. /\ TreeInv' /\ Typed /\ Linked
        /\ Len(tree) \in Nat /\ DOMAIN tree = 1 .. Len(tree) /\ Known = 0 .. Len(tree)
        BY BuildTree, BlockFacts DEF IInv, TreeInv, Known
  <1>3. /\ \A y \in Known : StateOf(y)' = StateOf(y) /\ Line(y)' = Line(y)
        /\ Line(k)' = {k} \cup Line(parent)
        /\ \A y \in Built : /\ UpdatesIn(y)' = UpdatesIn(y) /\ ParentOf(y)' = ParentOf(y)
                             /\ NonceAt(y)' = NonceAt(y) /\ BranchOf(y)' = BranchOf(y)
        /\ Built' = Built \cup {k + 1}
        BY <1>1, <1>2, Grows
  <1>4. /\ parent' = x /\ UnsignedTxNonce' = StateOf(x)'.nonce
        /\ updates' = <<>> /\ sent' = sent
        BY <1>2, Starts
  <1>5. DOMAIN tree' = 1 .. k /\ Len(tree') = k
        BY <1>1, <1>2, Seals
  <1>6. /\ UpdatesIn(k + 1)' = <<>> /\ ParentOf(k + 1)' = x
        /\ NonceAt(k + 1)' = StateOf(x)'.nonce
    <2>1. k + 1 \notin DOMAIN tree'
          BY <1>1, <1>2, <1>5
    <2> QED
        BY <1>4, <2>1 DEF UpdatesIn, ParentOf, NonceAt
  <1>7. PayloadsAreDifferences'
    <2>1. ASSUME NEW m \in sent
          PROVE  /\ m.home \in DOMAIN tree'
                 /\ m.payload.block_number = NumberOf(m.home)'
                 /\ m.payload.nonce = StateOf(m.home)'.nonce
                 /\ m.payload.changes \in Differences(StateOf(m.home)'.best)
      <3>1. m.home \in DOMAIN tree /\ m.home \in Known
            BY <1>2 DEF IInv, PayloadsAreDifferences
      <3>2. StateOf(m.home)' = StateOf(m.home) /\ m.home \in DOMAIN tree'
            BY <1>1, <1>2, <1>3, <1>5, <3>1
      <3>3. NumberOf(m.home)' = NumberOf(m.home)
            BY <1>2, <3>1, Seals DEF NumberOf
      <3> QED
          BY <3>2, <3>3 DEF IInv, PayloadsAreDifferences
    <2> QED
        BY <1>4, <2>1 DEF PayloadsAreDifferences
  <1>8. UpdatesAreCounted'
    <2> SUFFICES ASSUME NEW y \in Built'
                 PROVE  \E z : /\ z = ParentOf(y)'
                               /\ NonceAt(y)' = StateOf(z)'.nonce + Len(UpdatesIn(y)')
                               /\ \A i \in DOMAIN UpdatesIn(y)' :
                                    UpdatesIn(y)'[i].of.payload.nonce = StateOf(z)'.nonce + i - 1
        BY DEF UpdatesAreCounted, StateOf
    <2>1. CASE y \in Built
      <3>1. PICK z \in Known : z = ParentOf(y)
            BY <1>2, <2>1, BranchIsLine
      <3>2. /\ NonceAt(y) = StateOf(z).nonce + Len(UpdatesIn(y))
            /\ \A i \in DOMAIN UpdatesIn(y) :
                 UpdatesIn(y)[i].of.payload.nonce = StateOf(z).nonce + i - 1
            BY <2>1, <3>1 DEF IInv, UpdatesAreCounted
      <3> QED
          BY <1>3, <2>1, <3>1, <3>2
    <2>2. CASE y = k + 1
      <3>1. StateOf(x)'.nonce \in Nat
        <4>1. UnsignedTxNonce' \in Nat
              BY <1>2 DEF TreeInv, Typed, PalletTypeOK
        <4> QED
            BY <1>4, <4>1
      <3> QED
          BY <1>6, <2>2, <3>1
    <2> QED
        BY <1>3, <2>1, <2>2
  <1>9. UpdatesFit'
    <2> SUFFICES ASSUME NEW y \in Built', NEW i \in DOMAIN UpdatesIn(y)'
                 PROVE  \E u : /\ u = UpdatesIn(y)'[i]
                               /\ u.of \in sent'
                               /\ u.of.home \in BranchOf(y)' => u.before = StateOf(u.of.home)'.best
        BY DEF UpdatesFit, StateOf
    <2>1. CASE y \in Built
      <3>1. PICK u : /\ u = UpdatesIn(y)[i] /\ u = UpdatesIn(y)'[i]
                     /\ u.of \in sent
                     /\ u.of.home \in BranchOf(y) => u.before = StateOf(u.of.home).best
            BY <1>3, <2>1 DEF IInv, UpdatesFit
      <3>2. PICK h \in DOMAIN tree : h = u.of.home
            BY <3>1 DEF IInv, PayloadsAreDifferences
      <3>3. h \in Known /\ StateOf(h)' = StateOf(h) /\ h # k
            BY <1>1, <1>2, <1>3
      <3>4. h \in BranchOf(y)' => h \in BranchOf(y)
            BY <1>3, <2>1
      <3> QED
          BY <1>4, <3>1, <3>2, <3>3, <3>4 DEF StateOf
    <2>2. CASE y = k + 1
          BY <1>6, <2>2
    <2> QED
        BY <1>3, <2>1, <2>2
  <1> QED
      BY <1>2, <1>7, <1>8, <1>9 DEF IInv

-----------------------------------------------------------------------------
(* Steps that leave the tree alone                                         *)

(* What is read off the tree stays when the tree does.                     *)
LEMMA SameTree ==
  ASSUME UNCHANGED <<tree, parent>>
  PROVE  /\ \A y : /\ StateOf(y)' = StateOf(y) /\ NumberOf(y)' = NumberOf(y) /\ Line(y)' = Line(y)
                   /\ ParentOf(y)' = ParentOf(y) /\ BranchOf(y)' = BranchOf(y)
         /\ Known' = Known /\ Built' = Built
  BY DEF StateOf, NumberOf, Line, ParentOf, BranchOf, Known, Built, GenesisState

(* The chain of nonces and what was sent and updated stay, too.            *)
LEMMA QuietTree ==
  ASSUME TreeInv, Typed', UNCHANGED <<tree, parent, block_number, BestPaths, UnsignedTxNonce>>
  PROVE  TreeInv'
  BY SameTree DEF TreeInv, Linked, LinesAreChains, NonceIsVersion,
         StateOf, NumberOf, Line, Known, GenesisState

(* The updates stay counted and fitting when only payloads are sent.       *)
LEMMA QuietUpdates ==
  ASSUME UpdatesAreCounted, UpdatesFit, UNCHANGED <<tree, parent, updates, UnsignedTxNonce>>,
         sent \subseteq sent'
  PROVE  UpdatesAreCounted' /\ UpdatesFit'
  <1>1. /\ \A y : UpdatesIn(y)' = UpdatesIn(y) /\ NonceAt(y)' = NonceAt(y)
        /\ \A y : StateOf(y)' = StateOf(y) /\ ParentOf(y)' = ParentOf(y) /\ BranchOf(y)' = BranchOf(y)
        /\ Built' = Built
        BY SameTree DEF UpdatesIn, NonceAt
  <1>2. UpdatesAreCounted'
    <2> SUFFICES ASSUME NEW y \in Built
                 PROVE  \E n : /\ n = StateOf(ParentOf(y)').nonce
                               /\ NonceAt(y) = n + Len(UpdatesIn(y))
                               /\ \A i \in DOMAIN UpdatesIn(y) :
                                    UpdatesIn(y)[i].of.payload.nonce = n + i - 1
        BY <1>1 DEF UpdatesAreCounted
    <2> QED
        BY <1>1 DEF UpdatesAreCounted
  <1>3. UpdatesFit'
    <2> SUFFICES ASSUME NEW y \in Built, NEW i \in DOMAIN UpdatesIn(y)
                 PROVE  \E u : /\ u = UpdatesIn(y)[i]
                               /\ u.of \in sent'
                               /\ u.of.home \in BranchOf(y) => u.before = StateOf(u.of.home).best
        BY <1>1 DEF UpdatesFit
    <2> QED
        BY DEF UpdatesFit
  <1> QED
      BY <1>2, <1>3

(* The payloads stay differences when nothing is sent.                     *)
LEMMA QuietPayloads ==
  ASSUME PayloadsAreDifferences, UNCHANGED <<tree, sent>>
  PROVE  PayloadsAreDifferences'
  BY DEF PayloadsAreDifferences, StateOf, NumberOf, GenesisState

(* The calls of sudo keep the invariant.                                   *)
LEMMA GovernStep ==
  ASSUME IInv, Govern
  PROVE  IInv'
  <1>1. UNCHANGED <<tree, parent, updates, sent, block_number, BestPaths, UnsignedTxNonce>>
        BY DEF Govern, GovernPallet, submit_monitored_pairs, add_whitelisted_offchain_authority,
               Refused, storage
  <1>2. Typed'
        BY <1>1, GovernType, GovernedPairs DEF IInv, TreeInv, Typed, Govern
  <1> QED
      BY <1>1, <1>2, QuietTree, QuietUpdates, QuietPayloads DEF IInv

(* A stuttering step keeps the invariant.                                  *)
LEMMA StutterStep ==
  ASSUME IInv, UNCHANGED vars
  PROVE  IInv'
  <1>1. UNCHANGED <<tree, parent, updates, sent, block_number, BestPaths, MonitoredPairs,
                    WhitelistedOffchainAuthorities, UnsignedTxNonce>>
        BY DEF vars, palletVars, storage
  <1>2. Typed'
        BY <1>1 DEF IInv, TreeInv, Typed, PalletTypeOK
  <1> QED
      BY <1>1, <1>2, QuietTree, QuietUpdates, QuietPayloads DEF IInv

(* A round against any block of the tree keeps the invariant.              *)
LEMMA WorkStep ==
  ASSUME IInv, NEW x \in DOMAIN tree, Work(x)
  PROVE  IInv'
  <1> DEFINE s == tree[x].state
  <1>1. /\ Typed /\ x \in Known /\ x # 0 /\ tree[x] \in Block /\ StateOf(x) = s
        BY BlockFacts DEF IInv, TreeInv, Known, StateOf
  <1>2. PICK fetched \in FetchedPrices(s), account \in Account :
          /\ calc_best_paths(fetched) # CalculatorError
          /\ ~DividesByZero(s, calc_best_paths(fetched))
          /\ ChangedPairs(s, calc_best_paths(fetched)) # {}
          /\ sent' = sent \cup {[payload |-> BestPathChangesPayload(s, calc_best_paths(fetched), tree[x].number, account),
                                home |-> x]}
          /\ UNCHANGED <<block_number, storage, tree, parent, updates>>
        BY DEF Work
  <1>3. s \in StateType /\ tree[x].number \in Nat
        BY <1>1 DEF Block
  <1> DEFINE changes == ListOfChanges(s, calc_best_paths(fetched))
             parcel  == [payload |-> BestPathChangesPayload(s, calc_best_paths(fetched), tree[x].number, account),
                         home |-> x]
  <1>4. changes \in Differences(s.best)
        BY <1>2, <1>3, RoundSendsDifferences
  <1>5. /\ parcel.home = x /\ parcel.payload.nonce = s.nonce
        /\ parcel.payload.block_number = NumberOf(x)
        /\ parcel.payload.changes = changes
        BY <1>1 DEF BestPathChangesPayload, NumberOf
  <1>6. parcel \in Parcel
    <2>1. changes \in Seq(Change) /\ s.nonce \in Nat /\ x \in Nat
          BY <1>1, <1>3, <1>4, BlockFacts DEF Differences, StateType, Known
    <2> QED
        BY <1>3, <2>1 DEF Parcel, Payload, BestPathChangesPayload
  <1>7. sent' = sent \cup {parcel}
        BY <1>2
  <1> HIDE DEF parcel, changes
  <1>8. Typed'
        BY <1>2, <1>6, <1>7 DEF IInv, TreeInv, Typed, PalletTypeOK, storage
  <1>9. PayloadsAreDifferences'
    <2>1. \A m \in sent \cup {parcel} :
            /\ m.home \in DOMAIN tree
            /\ m.payload.block_number = NumberOf(m.home)
            /\ m.payload.nonce = StateOf(m.home).nonce
            /\ m.payload.changes \in Differences(StateOf(m.home).best)
          BY <1>1, <1>4, <1>5 DEF IInv, PayloadsAreDifferences
    <2> QED
        BY <1>2, <1>7, <2>1 DEF PayloadsAreDifferences, StateOf, NumberOf, GenesisState
  <1> QED
      BY <1>2, <1>7, <1>8, <1>9, QuietTree, QuietUpdates DEF IInv, storage

(* A payload takes effect, or is refused.                                  *)
LEMMA IncludeStep ==
  ASSUME IInv, NEW m \in sent, Include(m)
  PROVE  IInv'
  <1>1. /\ UNCHANGED <<tree, parent, sent, block_number, MonitoredPairs>>
        /\ m.payload.changes \in Seq(Change)
        BY DEF Include, ApplyUnsigned, ocw_submit_best_paths_changes, Refused, storage,
               IInv, PayloadsAreDifferences, Differences
  <1>2. PalletTypeOK'
        BY <1>1, SubmitPathsType DEF Include, ApplyUnsigned, IInv, TreeInv, Typed
  <1>3. CASE ~nonce_is_current(m.payload)
    <2>1. UNCHANGED <<updates, BestPaths, UnsignedTxNonce>>
          BY <1>3 DEF Include, ApplyUnsigned, ocw_submit_best_paths_changes, Refused, storage
    <2>2. Typed'
          BY <1>1, <1>2, <2>1 DEF IInv, TreeInv, Typed
    <2> QED
        BY <1>1, <2>1, <2>2, QuietTree, QuietUpdates, QuietPayloads DEF IInv
  <1>4. CASE nonce_is_current(m.payload)
    <2> DEFINE update == [of |-> m, before |-> BestPaths]
    <2>1. /\ m.payload.nonce = UnsignedTxNonce /\ UnsignedTxNonce' = UnsignedTxNonce + 1
          /\ updates' = Append(updates, update)
          BY <1>4 DEF Include, ApplyUnsigned, ocw_submit_best_paths_changes, nonce_is_current
    <2>2. update \in Update /\ update.of = m /\ update.before = BestPaths
          BY DEF IInv, TreeInv, Typed, PalletTypeOK, Update
    <2> HIDE DEF update
    <2>3. /\ Typed /\ Linked /\ LinesAreChains /\ NonceIsVersion
          /\ Len(tree) \in Nat /\ DOMAIN tree = 1 .. Len(tree) /\ UnsignedTxNonce \in Nat
          /\ updates \in Seq(Update)
          BY BlockFacts DEF IInv, TreeInv, Typed, PalletTypeOK
    <2>4. Typed'
          BY <1>1, <1>2, <2>1, <2>2, <2>3 DEF Typed
    <2>5. /\ \A y : /\ StateOf(y)' = StateOf(y) /\ NumberOf(y)' = NumberOf(y) /\ Line(y)' = Line(y)
                    /\ ParentOf(y)' = ParentOf(y) /\ BranchOf(y)' = BranchOf(y)
          /\ Known' = Known /\ Built' = Built
          BY <1>1, SameTree
    <2>6. Linked' /\ LinesAreChains'
          BY <1>1, <2>3 DEF Linked, LinesAreChains, StateOf, NumberOf, Line, Known
    <2>7. NonceIsVersion'
      <3>1. ASSUME NEW y \in Line(parent)
            PROVE  StateOf(y).nonce <= UnsignedTxNonce + 1 /\ StateOf(y).nonce # UnsignedTxNonce + 1
        <4>1. StateOf(y).nonce <= UnsignedTxNonce
              BY <2>3 DEF NonceIsVersion
        <4>2. StateOf(y).nonce \in Nat
          <5>1. y \in Known
                BY <2>3 DEF Linked, LinesAreChains, Known
          <5> QED
              BY <2>3, <5>1, BlockFacts DEF StateType
        <4> QED
            BY <2>3, <4>1, <4>2
      <3>2. \A x \in Known : \A y \in Line(x) :
              /\ StateOf(y).nonce <= StateOf(x).nonce
              /\ StateOf(y).nonce = StateOf(x).nonce => StateOf(y).best = StateOf(x).best
            BY <2>3 DEF NonceIsVersion
      <3>3. \A y \in Line(parent) :
              /\ StateOf(y).nonce <= UnsignedTxNonce'
              /\ StateOf(y).nonce = UnsignedTxNonce' => StateOf(y).best = BestPaths'
            BY <2>1, <3>1
      <3>4. parent' = parent
            BY <1>1
      <3> QED
          BY <2>5, <3>2, <3>3, <3>4 DEF NonceIsVersion
    <2>8. PayloadsAreDifferences'
          BY <1>1, QuietPayloads DEF IInv
    <2>9. PICK k : k = Len(tree) + 1
          OBVIOUS
    <2>10. /\ k \in Built /\ k \notin DOMAIN tree
           /\ UpdatesIn(k) = updates /\ UpdatesIn(k)' = Append(updates, update)
           /\ NonceAt(k) = UnsignedTxNonce /\ NonceAt(k)' = UnsignedTxNonce + 1
           /\ ParentOf(k) = parent
      <3>1. k \in Built /\ k \notin DOMAIN tree
            BY <2>3, <2>9 DEF Built
      <3> QED
          BY <1>1, <2>1, <3>1 DEF UpdatesIn, NonceAt, ParentOf
    <2>11. \A y \in Built : y # k =>
             UpdatesIn(y)' = UpdatesIn(y) /\ NonceAt(y)' = NonceAt(y)
      <3>1. \A y \in Built : y # k => y \in DOMAIN tree
            BY <2>3, <2>9 DEF Built
      <3> QED
          BY <1>1, <3>1 DEF UpdatesIn, NonceAt
    <2>12. /\ Len(Append(updates, update)) = Len(updates) + 1 /\ Len(updates) \in Nat
           /\ DOMAIN updates = 1 .. Len(updates)
           /\ DOMAIN Append(updates, update) = 1 .. Len(updates) + 1
           /\ \A i \in 1 .. Len(updates) + 1 :
                Append(updates, update)[i] = IF i = Len(updates) + 1 THEN update ELSE updates[i]
          BY <2>2, <2>3
    <2>13. UpdatesAreCounted'
      <3> DEFINE Counted(y, nonce, list) ==
                   /\ nonce = StateOf(ParentOf(y)).nonce + Len(list)
                   /\ \A i \in DOMAIN list : list[i].of.payload.nonce = StateOf(ParentOf(y)).nonce + i - 1
      <3>1. \A y \in Built : Counted(y, NonceAt(y), UpdatesIn(y))
            BY DEF IInv, UpdatesAreCounted
      <3>2. Counted(k, UnsignedTxNonce + 1, Append(updates, update))
        <4>1. StateOf(parent).nonce \in Nat
              BY <2>3, BlockFacts DEF Linked, StateType
        <4>2. /\ UnsignedTxNonce = StateOf(parent).nonce + Len(updates)
              /\ \A i \in DOMAIN updates : updates[i].of.payload.nonce = StateOf(parent).nonce + i - 1
              BY <2>10, <3>1
        <4>3. UnsignedTxNonce + 1 = StateOf(parent).nonce + (Len(updates) + 1)
          <5>1. \A a, b, c \in Nat : a = b + c => a + 1 = b + (c + 1)
                OBVIOUS
          <5> QED
              BY <2>3, <2>12, <4>1, <4>2, <5>1
        <4>4. ASSUME NEW i \in 1 .. Len(updates) + 1
              PROVE  Append(updates, update)[i].of.payload.nonce = StateOf(parent).nonce + i - 1
          <5>1. CASE i = Len(updates) + 1
            <6>1. Append(updates, update)[i].of.payload.nonce = UnsignedTxNonce
                  BY <2>1, <2>2, <2>12, <5>1
            <6> QED
                BY <2>12, <4>1, <4>2, <5>1, <6>1
          <5>2. CASE i # Len(updates) + 1
            <6>1. i \in DOMAIN updates
                  BY <2>12, <5>2
            <6> QED
                BY <2>12, <4>2, <5>2, <6>1
          <5> QED
              BY <5>1, <5>2
        <4> QED
            BY <2>10, <2>12, <4>3, <4>4
      <3>3. \A y \in Built : Counted(y, NonceAt(y)', UpdatesIn(y)')
        <4> HIDE DEF Counted
        <4> QED
            BY <2>10, <2>11, <3>1, <3>2
      <3>4. ASSUME NEW y \in Built
            PROVE  StateOf(ParentOf(y))' = StateOf(ParentOf(y))
            BY <1>1 DEF StateOf, ParentOf, GenesisState
      <3> QED
          BY <2>5, <3>3, <3>4 DEF UpdatesAreCounted
    <2>14. UpdatesFit'
      <3> DEFINE Fits(y, u) == /\ u.of \in sent
                               /\ u.of.home \in BranchOf(y) => u.before = StateOf(u.of.home).best
      <3>1. \A y \in Built : \A i \in DOMAIN UpdatesIn(y) : Fits(y, UpdatesIn(y)[i])
            BY DEF IInv, UpdatesFit
      <3>2. Fits(k, update)
        <4>1. ASSUME m.home \in BranchOf(k)
              PROVE  BestPaths = StateOf(m.home).best
          <5>1. m.home \in DOMAIN tree /\ m.home # k /\ StateOf(m.home).nonce = UnsignedTxNonce
                BY <2>1, <2>10 DEF IInv, PayloadsAreDifferences
          <5>2. m.home \in Line(parent)
                BY <2>3, <2>10, <4>1, <5>1, BranchIsLine
          <5> QED
              BY <2>3, <5>1, <5>2 DEF NonceIsVersion
        <4> QED
            BY <2>2, <4>1
      <3>3. \A y \in Built : \A i \in DOMAIN UpdatesIn(y)' : Fits(y, UpdatesIn(y)'[i])
        <4>1. ASSUME NEW i \in 1 .. Len(updates) + 1
              PROVE  Fits(k, Append(updates, update)[i])
          <5>1. CASE i = Len(updates) + 1
                BY <2>12, <3>2, <5>1
          <5>2. CASE i # Len(updates) + 1
            <6>1. i \in DOMAIN updates
                  BY <2>12, <5>2
            <6> QED
                BY <2>10, <2>12, <3>1, <5>2, <6>1
          <5> QED
              BY <5>1, <5>2
        <4> HIDE DEF Fits
        <4> QED
            BY <2>10, <2>11, <2>12, <3>1, <4>1
      <3> QED
          BY <1>1, <2>5, <3>3 DEF UpdatesFit, StateOf, GenesisState
    <2> QED
        BY <2>3, <2>4, <2>6, <2>7, <2>8, <2>13, <2>14 DEF IInv, TreeInv
  <1> QED
      BY <1>3, <1>4

-----------------------------------------------------------------------------
(* Theorems                                                                *)

(* The invariant holds with the genesis block alone.                       *)
LEMMA Initially == Init => IInv
  <1> SUFFICES ASSUME Init PROVE IInv
      OBVIOUS
  <1>1. /\ tree = <<>> /\ parent = 0 /\ updates = <<>> /\ sent = {}
        /\ BestPaths = [p \in Pair |-> None] /\ MonitoredPairs = {} /\ UnsignedTxNonce = 0
        /\ block_number = 1 /\ PalletTypeOK
        BY PalletInitType DEF Init, PalletInit, BlocksInit
  <1>2. Len(tree) = 0 /\ DOMAIN tree = {} /\ Known = {0} /\ Built = {1}
        BY <1>1 DEF Known, Built
  <1>3. StateOf(0) = GenesisState /\ NumberOf(0) = 0 /\ Line(0) = {0}
        BY DEF StateOf, NumberOf, Line
  <1>4. Typed /\ Linked /\ LinesAreChains
        BY <1>1, <1>2, <1>3 DEF Typed, Linked, LinesAreChains
  <1>5. NonceIsVersion
        BY <1>1, <1>2, <1>3 DEF NonceIsVersion, GenesisState
  <1>6. UpdatesIn(1) = <<>> /\ NonceAt(1) = 0 /\ ParentOf(1) = 0
        BY <1>1, <1>2 DEF UpdatesIn, NonceAt, ParentOf
  <1>7. UpdatesAreCounted /\ UpdatesFit
        BY <1>2, <1>3, <1>6 DEF UpdatesAreCounted, UpdatesFit, GenesisState
  <1> QED
      BY <1>1, <1>4, <1>5, <1>7 DEF IInv, TreeInv, PayloadsAreDifferences

(* The invariant holds throughout, however the chain forks.                *)
LEMMA AlwaysIInv == Spec => []IInv
  <1>1. IInv /\ [Next]_vars => IInv'
        BY BuildStep, IncludeStep, GovernStep, WorkStep, StutterStep DEF Next
  <1> QED
      BY <1>1, Initially, PTL DEF Spec

(* The storage keeps its type on every branch, and the sealed blocks are a *)
(* tree with numbers that count the blocks of a branch.                    *)
THEOREM ForksTypeIsOK == Spec => []TypeOK
  <1>1. IInv => TypeOK
    <2> SUFFICES ASSUME IInv PROVE TypeOK
        OBVIOUS
    <2>1. PalletTypeOK /\ Linked
          BY DEF IInv, TreeInv, Typed
    <2>2. \A m \in sent : /\ m.home \in DOMAIN tree
                           /\ m.payload.block_number = NumberOf(m.home)
                           /\ m.payload.changes \in Seq(Change)
          BY DEF IInv, PayloadsAreDifferences, Differences
    <2> QED
        BY <2>1, <2>2 DEF TypeOK, Linked, Known
  <1> QED
      BY <1>1, AlwaysIInv, PTL

(* On its own branch, a payload that can still take effect fits the board, *)
(* for every way the chain may fork and every order of the payloads        *)
(* (ocw_submit_best_paths_changes: the nonce check).                       *)
THEOREM OwnBranchMatches == Spec => []OwnBranchPayloadsMatch
  <1>1. IInv => OwnBranchPayloadsMatch
    <2> SUFFICES ASSUME IInv, NEW m \in sent
                 PROVE  /\ \A x \in DOMAIN tree :
                             m.home \in Line(x) /\ StateOf(x).nonce = m.payload.nonce
                               => StateOf(x).best = StateOf(m.home).best
                        /\ m.home \in Line(parent) /\ UnsignedTxNonce = m.payload.nonce
                             => BestPaths = StateOf(m.home).best
        BY DEF OwnBranchPayloadsMatch
    <2>1. m.payload.nonce = StateOf(m.home).nonce
          BY DEF IInv, PayloadsAreDifferences
    <2>2. \A x \in DOMAIN tree : x \in Known
          BY BlockFacts DEF IInv, TreeInv, Known
    <2> QED
        BY <2>1, <2>2 DEF IInv, TreeInv, NonceIsVersion
  <1> QED
      BY <1>1, AlwaysIInv, PTL

(* No branch applies a payload twice (ocw_submit_best_paths_changes).      *)
LEMMA NoncesDiffer ==
  ASSUME IInv, NEW x \in Built, NEW y \in BranchOf(x) \ {0}, NEW z \in BranchOf(x) \ {0},
         NEW i \in DOMAIN UpdatesIn(y), NEW j \in DOMAIN UpdatesIn(z),
         y < z
  PROVE  UpdatesIn(y)[i].of.payload.nonce < UpdatesIn(z)[j].of.payload.nonce
  <1>1. /\ Typed /\ Linked /\ LinesAreChains /\ NonceIsVersion
        /\ Len(tree) \in Nat /\ DOMAIN tree = 1 .. Len(tree)
        /\ UpdatesIn(y) \in Seq(Update) /\ UpdatesIn(z) \in Seq(Update)
        BY BlockFacts, UpdatesType DEF IInv, TreeInv
  <1>2. ParentOf(x) \in Known /\ ParentOf(x) < x /\ BranchOf(x) = {x} \cup Line(ParentOf(x))
        BY <1>1, BranchIsLine
  <1>3. Line(ParentOf(x)) \subseteq 0 .. ParentOf(x) /\ x \in 1 .. Len(tree) + 1
        BY <1>1, <1>2 DEF LinesAreChains, Built
  <1>4. /\ y \in 1 .. Len(tree) + 1 /\ z \in 1 .. Len(tree) + 1
        /\ y \in Line(ParentOf(x)) /\ y \in Known
    <2>1. ParentOf(x) \in Nat /\ ParentOf(x) <= Len(tree)
          BY <1>1, <1>2 DEF Known
    <2>2. y # x
          BY <1>2, <1>3, <2>1
    <2> QED
        BY <1>1, <1>2, <1>3, <2>1, <2>2 DEF Known
  <1>5. y \in Line(ParentOf(z))
    <2>1. ParentOf(z) \in Known /\ BranchOf(z) = {z} \cup Line(ParentOf(z))
          BY <1>1, <1>4, BranchIsLine DEF Built
    <2>2. CASE z = x
          BY <1>4, <2>2
    <2>3. CASE z # x
      <3>1. z \in Line(ParentOf(x)) /\ z \in DOMAIN tree /\ z # Len(tree) + 1
            BY <1>1, <1>2, <1>3, <1>4, <2>3 DEF Known
      <3>2. z \in Known /\ y <= z /\ y # z
            BY <1>1, <1>4, <3>1 DEF Known
      <3>3. y \in Line(z)
            BY <1>1, <1>2, <1>4, <3>1, <3>2 DEF LinesAreChains
      <3>4. Line(z) = BranchOf(z)
            BY <3>1 DEF BranchOf
      <3> QED
          BY <2>1, <3>2, <3>3, <3>4
    <2> QED
        BY <2>2, <2>3
  <1>6. ParentOf(z) \in Known /\ ParentOf(y) \in Known
        BY <1>1, <1>4, BranchIsLine DEF Built
  <1>7. StateOf(y).nonce <= StateOf(ParentOf(z)).nonce
        BY <1>1, <1>5, <1>6 DEF NonceIsVersion
  <1>8. /\ StateOf(y).nonce = StateOf(ParentOf(y)).nonce + Len(UpdatesIn(y))
        /\ UpdatesIn(y)[i].of.payload.nonce = StateOf(ParentOf(y)).nonce + i - 1
    <2>1. y \in DOMAIN tree /\ y # 0 /\ y \in Built
          BY <1>1, <1>4 DEF Known, Built
    <2>2. NonceAt(y) = StateOf(y).nonce
          BY <2>1 DEF NonceAt, StateOf
    <2> QED
        BY <2>1, <2>2 DEF IInv, UpdatesAreCounted
  <1>9. UpdatesIn(z)[j].of.payload.nonce = StateOf(ParentOf(z)).nonce + j - 1
        BY <1>4 DEF IInv, UpdatesAreCounted, Built
  <1>10. /\ StateOf(ParentOf(y)).nonce \in Nat /\ StateOf(ParentOf(z)).nonce \in Nat
         /\ i \in 1 .. Len(UpdatesIn(y)) /\ Len(UpdatesIn(y)) \in Nat /\ j \in Nat \ {0}
         BY <1>1, <1>6, BlockFacts DEF StateType
  <1>11. \A a, b, n, c, d \in Nat : c \in 1 .. n /\ d # 0 /\ a + n <= b => a + c - 1 < b + d - 1
         OBVIOUS
  <1> QED
      BY <1>7, <1>8, <1>9, <1>10, <1>11

(* However often pools offer the payloads of abandoned blocks again, no    *)
(* payload takes effect twice on one branch                                *)
(* (ocw_submit_best_paths_changes: the nonce check).                       *)
THEOREM AppliedOncePerBranch == Spec => []OncePerBranch
  <1>1. IInv => OncePerBranch
    <2> SUFFICES ASSUME IInv, NEW x \in Built, NEW y \in BranchOf(x) \ {0}, NEW z \in BranchOf(x) \ {0},
                        NEW i \in DOMAIN UpdatesIn(y), NEW j \in DOMAIN UpdatesIn(z),
                        UpdatesIn(y)[i].of.payload = UpdatesIn(z)[j].of.payload
                 PROVE  y = z /\ i = j
        BY DEF OncePerBranch
    <2>1. /\ Typed /\ Linked /\ LinesAreChains
          /\ UpdatesIn(y) \in Seq(Update) /\ UpdatesIn(z) \in Seq(Update)
          BY UpdatesType DEF IInv, TreeInv
    <2>2. y \in Built /\ z \in Built /\ y \in Nat /\ z \in Nat
      <3>1. ParentOf(x) \in Known /\ BranchOf(x) = {x} \cup Line(ParentOf(x))
            BY <2>1, BranchIsLine
      <3>2. Line(ParentOf(x)) \subseteq 0 .. ParentOf(x)
            BY <2>1, <3>1 DEF LinesAreChains
      <3> QED
          BY <2>1, <3>1, <3>2, BlockFacts DEF Known, Built
    <2>3. \A n \in DOMAIN UpdatesIn(y) : UpdatesIn(y)[n] \in Update
          BY <2>1, SeqElement
    <2>4. \A n \in DOMAIN UpdatesIn(z) : UpdatesIn(z)[n] \in Update
          BY <2>1, SeqElement
    <2>5. UpdatesIn(y)[i].of.payload.nonce \in Nat /\ UpdatesIn(z)[j].of.payload.nonce \in Nat
          BY <2>3, <2>4 DEF Update, Parcel, Payload
    <2>6. ~(y < z) /\ ~(z < y)
          BY <2>5, NoncesDiffer
    <2>7. y = z
          BY <2>2, <2>6
    <2>8. StateOf(ParentOf(y)).nonce + i - 1 = StateOf(ParentOf(y)).nonce + j - 1
          BY <2>2, <2>7 DEF IInv, UpdatesAreCounted
    <2>9. StateOf(ParentOf(y)).nonce \in Nat /\ i \in Nat /\ j \in Nat
          BY <2>1, <2>2, BranchIsLine, BlockFacts DEF StateType
    <2> QED
        BY <2>7, <2>8, <2>9
  <1> QED
      BY <1>1, AlwaysIInv, PTL

(* The tolerance is kept on every branch by the payloads of that branch,   *)
(* also after one of another branch took effect                            *)
(* (fetch_prices_and_update_best_paths, breaches_tolerance).               *)
THEOREM ToleranceIsKept == Spec => []ToleranceOnOwnBranch
  <1>1. IInv => ToleranceOnOwnBranch
    <2> SUFFICES ASSUME IInv, NEW x \in Built, NEW i \in DOMAIN UpdatesIn(x),
                        UpdatesIn(x)[i].of.home \in BranchOf(x),
                        NEW c \in DOMAIN UpdatesIn(x)[i].of.payload.changes
                 PROVE  LET u      == UpdatesIn(x)[i]
                            change == u.of.payload.changes[c]
                            old    == u.before[change.pair]
                        IN  \/ old = None
                            \/ breaches_tolerance(old.total_cost, change.path.total_cost, PriceChangeTolerance)
        BY DEF ToleranceOnOwnBranch, KeepsTolerance
    <2>1. PICK u : u = UpdatesIn(x)[i]
          OBVIOUS
    <2>2. u.of \in sent /\ u.before = StateOf(u.of.home).best
          BY <2>1 DEF IInv, UpdatesFit
    <2>3. u.of.payload.changes \in Differences(u.before)
          BY <2>2 DEF IInv, PayloadsAreDifferences
    <2>4. WorthSending(u.before[u.of.payload.changes[c].pair], u.of.payload.changes[c].path)
          BY <2>1, <2>3 DEF Differences
    <2> QED
        BY <2>1, <2>4 DEF WorthSending
  <1> QED
      BY <1>1, AlwaysIInv, PTL
=============================================================================
