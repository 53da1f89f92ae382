------------------------------- MODULE Forks -------------------------------
(***************************************************************************)
(* The pallet on a chain that forks.  Sealed blocks form a tree; an author *)
(* builds on the longest branch it knows (LongestChain, service.rs), which *)
(* may be any of them, as blocks reach the authors late.  A block starts   *)
(* from the state of its parent, and the offchain worker of a block reads  *)
(* the state of that block.                                                *)
(*                                                                         *)
(* A payload knows its nonce and the number of its block, not the branch   *)
(* it was calculated on.  When a node changes to another branch, its pool  *)
(* offers the payloads of the blocks it left again; as in AggregatorSystem *)
(* the pools are one set of payloads that only grows.                      *)
(*                                                                         *)
(* The workers' turns are left out, as if a worker of every block had one: *)
(* what holds for these payloads holds for the fewer that are sent.        *)
(***************************************************************************)
EXTENDS PriceRound

CONSTANTS
  MaxSealed,   \* bound: sealed blocks, on all branches
  MaxSent      \* bound: payloads sent

ASSUME ForksAssumption == {MaxSealed, MaxSent} \subseteq Nat

VARIABLES
  tree,      \* the sealed blocks, in the order they were sealed
  parent,    \* what the block being built stands on: an index of tree, or 0
  updates,   \* the payloads that took effect in it, and the board before each
  sent       \* the payloads, each with the block it was calculated on

vars == <<palletVars, tree, parent, updates, sent>>

GenesisState ==
  [best |-> [p \in Pair |-> None], pairs |-> {}, whitelist |-> {}, nonce |-> 0]

StateOf(x)  == IF x = 0 THEN GenesisState ELSE tree[x].state
NumberOf(x) == IF x = 0 THEN 0 ELSE tree[x].number

(* The blocks from x back to genesis; a header names its parent.           *)
Line(x) == IF x = 0 THEN {0} ELSE tree[x].line

Init ==
  /\ PalletInit
  /\ tree = <<>>
  /\ parent = 0
  /\ updates = <<>>
  /\ sent = {}

(* The block is sealed, and some author goes on from some sealed block.    *)
BuildOn(x) ==
  LET sealed == Append(tree, [number |-> block_number, parent |-> parent,
                              line |-> {Len(tree) + 1} \cup Line(parent),
                              state |-> CurrentState, updates |-> updates])
      start  == IF x = 0 THEN [number |-> 0, state |-> GenesisState] ELSE sealed[x]
  IN  /\ start.number < MaxBlock
      /\ tree' = sealed
      /\ parent' = x
      /\ block_number' = start.number + 1
      /\ BestPaths' = start.state.best
      /\ MonitoredPairs' = start.state.pairs
      /\ WhitelistedOffchainAuthorities' = start.state.whitelist
      /\ UnsignedTxNonce' = start.state.nonce
      /\ updates' = <<>>
      /\ event' = NoEvent
      /\ UNCHANGED sent

Include(m) ==
  /\ ApplyUnsigned(TRUE, m.payload)
  /\ updates' = IF nonce_is_current(m.payload)
                THEN Append(updates, [of |-> m, before |-> BestPaths]) ELSE updates
  /\ UNCHANGED <<tree, parent, sent>>

Govern == GovernPallet /\ UNCHANGED <<tree, parent, updates, sent>>

(* The worker of block x sends a payload.                                  *)
Work(x) ==
  LET s == tree[x].state IN
  \E fetched \in FetchedPrices(s), account \in Account :
     LET new     == calc_best_paths(fetched)
         payload == BestPathChangesPayload(s, new, tree[x].number, account)
     IN  /\ DOMAIN fetched # {} /\ new # CalculatorError
         /\ ~DividesByZero(s, new) /\ ChangedPairs(s, new) # {}
         /\ validate_unsigned(TRUE, payload, s.whitelist, tree[x].number + 1) = "Valid"
         /\ sent' = sent \cup {[payload |-> payload, home |-> x]}
         /\ event' = NoEvent
         /\ UNCHANGED <<block_number, storage, tree, parent, updates>>

Next ==
  \/ Len(tree) < MaxSealed /\ \E x \in 0 .. Len(tree) + 1 : BuildOn(x)
  \/ \E m \in sent : Include(m)
  \/ Govern
  \/ Cardinality(sent) < MaxSent /\ \E x \in DOMAIN tree : Work(x)

Spec == Init /\ [][Next]_vars

-----------------------------------------------------------------------------
(* An update by its place: the block, which is Len(tree) + 1 for the one   *)
(* being built, and the index in it.                                       *)
UpdatesIn(x) == IF x \in DOMAIN tree THEN tree[x].updates ELSE updates
BranchOf(x)  == IF x = Len(tree) + 1 THEN {x} \cup Line(parent) ELSE Line(x)
Built        == 1 .. Len(tree) + 1

TypeOK ==
  /\ PalletTypeOK
  /\ parent \in 0 .. Len(tree)
  /\ \A x \in DOMAIN tree :
       /\ tree[x].parent \in 0 .. x - 1
       /\ tree[x].number = NumberOf(tree[x].parent) + 1
       /\ tree[x].line = {x} \cup Line(tree[x].parent)
  /\ block_number = NumberOf(parent) + 1
  /\ \A m \in sent :
       /\ m.home \in DOMAIN tree
       /\ m.payload.block_number = NumberOf(m.home)
       /\ m.payload.changes \in Seq(Change)

(* On the branch it was calculated on, a payload that can still take       *)
(* effect fits the board: however often the branch was left and taken up   *)
(* again, and whatever the other branches put on it                        *)
(* (ocw_submit_best_paths_changes: the nonce check).                       *)
OwnBranchPayloadsMatch ==
  \A m \in sent :
     /\ \A x \in DOMAIN tree :
          m.home \in Line(x) /\ StateOf(x).nonce = m.payload.nonce => StateOf(x).best = StateOf(m.home).best
     /\ m.home \in Line(parent) /\ UnsignedTxNonce = m.payload.nonce => BestPaths = StateOf(m.home).best

(* No payload takes effect twice on one branch, though pools offer those   *)
(* of abandoned blocks again, and workers of two branches may sign the     *)
(* very same payload (ocw_submit_best_paths_changes).                      *)
OncePerBranch ==
  \A x \in Built : \A y, z \in BranchOf(x) \ {0} :
     \A i \in DOMAIN UpdatesIn(y), j \in DOMAIN UpdatesIn(z) :
        UpdatesIn(y)[i].of.payload = UpdatesIn(z)[j].of.payload => y = z /\ i = j

(* Every cost that the update u replaces is breached by the one it brings. *)
KeepsTolerance(u) ==
  \A c \in DOMAIN u.of.payload.changes :
     LET change == u.of.payload.changes[c]
         old    == u.before[change.pair]
     IN  old = None \/ breaches_tolerance(old.total_cost, change.path.total_cost, PriceChangeTolerance)

(* A cost is replaced only by one that breaches the tolerance, measured    *)
(* against the cost it replaces, by every payload of the same branch, also *)
(* after one of another branch (fetch_prices_and_update_best_paths;        *)
(* README: "if not breached, on-chain prices aren't updated").  A payload  *)
(* of another branch with the same nonce is not held to it.                *)
ToleranceOnOwnBranch ==
  \A x \in Built : \A i \in DOMAIN UpdatesIn(x) :
     UpdatesIn(x)[i].of.home \in BranchOf(x) => KeepsTolerance(UpdatesIn(x)[i])
=============================================================================
