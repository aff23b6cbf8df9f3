------------------------------ MODULE CpsChain ------------------------------
(***************************************************************************)
(* The Robonomics chain as libcps and the MQTT bridge meet it.  It is not  *)
(* code of this repository: a finalized chain that only grows, best blocks *)
(* above it that a reorganization may take back, a pool of signed          *)
(* transactions, and the CPS pallet that executes their calls.             *)
(*                                                                         *)
(* A transaction carries the nonce its signer had in the finalized state,  *)
(* so of two transactions signed over the same state only one is ever      *)
(* executed.                                                               *)
(***************************************************************************)
EXTENDS Integers, Sequences, FiniteSets, SequencesExt, FiniteSetsExt

CONSTANTS Account, Node, None,
          Genesis,       \* the tree of the genesis block
          ThisChain,     \* the hash of the genesis block
          MaxPermitTtl,  \* MaxIdentityPermitTtl of the runtime
          MaxFinal, MaxBest, MaxPerBlock

ASSUME CpsChainConstants ==
    /\ "nonce" \in DOMAIN Genesis /\ Genesis.nonce \in [Account -> Nat]
    /\ MaxPerBlock \in Nat \ {0}

VARIABLES fin, best, pool

chain == <<fin, best, pool>>

FinalTree == Last(fin).tree
BestTree == IF best = <<>> THEN FinalTree ELSE Last(best).tree

Field == {"meta", "payload"}
NoData == [f \in Field |-> None]

Children(tree, n) == {c \in tree.nodes : tree.parent[c] = n}

\* The nodes from n to the root of its tree.
Path(tree, n) ==
    LET path[m \in Node] ==
            IF tree.parent[m] = None THEN <<m>> ELSE <<m>> \o path[tree.parent[m]]
    IN path[n]

(***************************************************************************)
(* A node is in the scope of the nearest node above it that roots one.     *)
(* Grants are entries of a scope: a nested scope starts without any.       *)
(***************************************************************************)
ScopePath(tree, n) ==
    LET path == Path(tree, n)
    IN SubSeq(path, 1, Min({i \in DOMAIN path : tree.scope[path[i]] # None}))

ScopeOf(tree, n) == tree.scope[Last(ScopePath(tree, n))]

Capable(tree, n, who, capability) ==
    \/ who = ScopeOf(tree, n).owner
    \/ \E g \in tree.grants :
        /\ g.scope = ScopeOf(tree, n).id /\ g.account = who /\ g.capability = capability
        /\ g.node = n \/ (g.mode = "subtree" /\ g.node \in Range(ScopePath(tree, n)))

NewScope(tree, n, who) ==
    [tree EXCEPT !.scope[n] = [id |-> tree.scopes + 1, owner |-> who], !.scopes = @ + 1]

(***************************************************************************)
(* The identity of a node is the account of the signer, or an account that *)
(* signed a permit for the scope, on this chain, up to a block.            *)
(***************************************************************************)
IdentityRefusal(tree, now, who, scope, bound, a) ==
    CASE \E n \in tree.nodes \ {bound} : tree.identity[n] = a.account -> "IdentityAlreadyInUse"
      [] a.account = who -> None
      [] scope = None -> "RootIdentityMustBeCaller"
      [] a.permit = None -> "IdentityPermitRequired"
      [] a.permit.until < now -> "IdentityPermitExpired"
      [] a.permit.until > now + MaxPermitTtl -> "IdentityPermitTooLong"
      [] a.permit.signature # [by |-> a.account, genesis |-> ThisChain,
                               scope |-> scope.id, until |-> a.permit.until]
             -> "InvalidIdentityPermit"
      [] OTHER -> None

\* What the pallet has against a call: the name of a dispatch error, or None.
OwnerOnly == {"create", "delete", "grant", "revoke", "identity", "clear_identity"}

Refusal(tree, now, who, call) ==
    LET n == call.node
        scope == IF n = None \/ (call.op = "identity" /\ tree.parent[n] = None) THEN None
                 ELSE ScopeOf(tree, n)
    IN CASE n # None /\ n \notin tree.nodes -> "NodeNotFound"
         [] n # None /\ call.op \in OwnerOnly /\ who # ScopeOf(tree, n).owner -> "NotScopeOwner"
         [] call.op = "set" /\ ~Capable(tree, n, who, "write") -> "AccessDenied"
         [] call.op = "scope" /\ ~Capable(tree, n, who, "create-scope") -> "AccessDenied"
         [] call.op = "delete" /\ Children(tree, n) # {} -> "NodeHasChildren"
         [] call.op = "clear_identity" /\ tree.identity[n] = None -> "IdentityNotSet"
         [] call.op \in {"create", "identity"} /\ call.identity # None ->
                IdentityRefusal(tree, now, who, scope,
                                IF call.op = "create" THEN None ELSE n, call.identity)
         [] OTHER -> None

\* A node gets an id that no node had before; a root node roots a new scope.
NewNode(tree, who, call) ==
    LET id == tree.next
        node == [tree EXCEPT !.nodes = @ \union {id}, !.parent[id] = call.node, !.next = @ + 1,
                             !.data[id] = call.data,
                             !.identity[id] = IF call.identity = None THEN None ELSE call.identity.account]
    IN IF call.node = None THEN NewScope(node, id, who) ELSE node

Changed(tree, who, call) ==
    LET n == call.node
        held(capability) == {g \in tree.grants : /\ g.node = n /\ g.account = call.account
                                                 /\ g.scope = ScopeOf(tree, n).id
                                                 /\ g.capability = capability}
    IN CASE call.op = "set"    -> [tree EXCEPT !.data[n][call.field] = call.value]
         [] call.op = "create" -> NewNode(tree, who, call)
         [] call.op = "delete" -> [tree EXCEPT !.nodes = @ \ {n}, !.data[n] = NoData,
                                               !.identity[n] = None, !.scope[n] = None,
                                               !.grants = {g \in @ : g.node # n}]
         [] call.op = "scope"  -> NewScope(tree, n, who)
         [] call.op = "grant"  ->
                [tree EXCEPT !.grants = (@ \ held(call.capability)) \union
                    {[scope |-> ScopeOf(tree, n).id, node |-> n, account |-> call.account,
                      capability |-> call.capability, mode |-> call.mode]}]
         [] call.op = "revoke" -> [tree EXCEPT !.grants = @ \ held(call.capability)]
         [] call.op = "identity" -> [tree EXCEPT !.identity[n] = call.identity.account]
         [] call.op = "clear_identity" -> [tree EXCEPT !.identity[n] = None]

Execute(tree, now, tx) ==
    LET error == Refusal(tree, now, tx.who, tx.call)
        after == IF error = None THEN Changed(tree, tx.who, tx.call) ELSE tree
    IN [tree |-> [after EXCEPT !.nonce[tx.who] = @ + 1],
        done |-> [tx |-> tx, error |-> error]]

ExecuteNext(block, tx) ==
    LET step == Execute(block.tree, block.number, tx)
    IN [block EXCEPT !.tree = step.tree, !.done = Append(@, step.done)]

\* A block that executes the transactions in turn on top of a tree.
BlockOn(tree, number, txs) ==
    LET block[k \in 0 .. Len(txs)] ==
            IF k = 0 THEN [number |-> number, tree |-> tree, done |-> <<>>]
            ELSE ExecuteNext(block[k - 1], txs[k])
    IN  block[Len(txs)]

Executable(tree, txs) ==
    \A i \in DOMAIN txs : \A who \in Account :
        txs[i].who = who =>
            txs[i].nonce = tree.nonce[who]
                           + Cardinality({j \in 1..(i - 1) : txs[j].who = who})

\* The blocks that executed a transaction, and what the pallet said of it.
Included(blocks, tx) ==
    {i \in DOMAIN blocks : \E j \in DOMAIN blocks[i].done : blocks[i].done[j].tx = tx}

Outcome(blocks, tx) ==
    LET i == CHOOSE i \in Included(blocks, tx) : TRUE
        j == CHOOSE j \in DOMAIN blocks[i].done : blocks[i].done[j].tx = tx
    IN blocks[i].done[j].error

-----------------------------------------------------------------------------
ChainInit ==
    /\ fin = <<[number |-> 0, tree |-> Genesis, done |-> <<>>]>>
    /\ best = <<>>
    /\ pool = {}

BuildBlock ==
    /\ Len(best) < MaxBest
    /\ Len(fin) + Len(best) < MaxFinal
    /\ \E txs \in UNION {[1..k -> pool] : k \in 1..MaxPerBlock} :
        /\ IsInjective(txs)
        /\ Executable(BestTree, txs)
        /\ best' = Append(best, BlockOn(BestTree, Len(fin) + Len(best), txs))
        /\ pool' = pool \ Range(txs)
    /\ UNCHANGED fin

Finalize ==
    /\ best # <<>>
    /\ fin' = Append(fin, Head(best))
    /\ best' = Tail(best)
    /\ UNCHANGED pool

\* The best blocks are abandoned; their transactions go back to the pool.
Reorganize ==
    /\ best # <<>>
    /\ best' = <<>>
    /\ pool' = pool \union UNION {{b.done[j].tx : j \in DOMAIN b.done} : b \in Range(best)}
    /\ UNCHANGED fin

\* The pool takes a transaction whose nonce is not used yet.
PoolTakes(tx) ==
    /\ tx.nonce >= BestTree.nonce[tx.who]
    /\ \A other \in pool : other.who = tx.who => other.nonce # tx.nonce

ChainNext == BuildBlock \/ Finalize \/ Reorganize
=============================================================================
