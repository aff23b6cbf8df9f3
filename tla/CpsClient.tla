----------------------------- MODULE CpsClient -----------------------------
(***************************************************************************)
(* libcps: handles that read the tree at one finalized block, transactions *)
(* that are built without touching the network, submitted and awaited, and *)
(* watchers of finalized blocks.  Every client (a task of the bridge, an   *)
(* invocation of the command line) has at most one transaction under way,  *)
(* kept in job[c].                                                         *)
(*                                                                         *)
(* told is a history variable: the definite answers callers were given of  *)
(* their transactions (an error about delivery is not one).                *)
(***************************************************************************)
EXTENDS CpsChain

CONSTANT Client

VARIABLES job, told

client == <<job, told>>

Idle == [pc |-> "idle"]

Ok(v) == [ok |-> TRUE, value |-> v]
Err(e) == [ok |-> FALSE, error |-> e]

-----------------------------------------------------------------------------
(* Transaction builders: a call with checked arguments, or an error.       *)

MAX_META_SIZE == 1024
MAX_PAYLOAD_SIZE == 8192

check_meta(v) == IF v # None /\ v.size > MAX_META_SIZE THEN "MetaTooLarge" ELSE None
check_payload(v) == IF v # None /\ v.size > MAX_PAYLOAD_SIZE THEN "PayloadTooLarge" ELSE None

check_field(f, v) == IF f = "meta" THEN check_meta(v) ELSE check_payload(v)

SetField(n, f, v) ==
    IF check_field(f, v) # None THEN Err(check_field(f, v))
    ELSE Ok([op |-> "set", node |-> n, field |-> f, value |-> v])

\* The id of the new node is the result of the transaction, read from its events.
CreateNode(parent, data, identity) ==
    LET error == IF check_meta(data.meta) # None THEN check_meta(data.meta)
                 ELSE check_payload(data.payload)
    IN IF error # None THEN Err(error)
       ELSE Ok([op |-> "create", node |-> parent, data |-> data, identity |-> identity])

DeleteNode(n) == Ok([op |-> "delete", node |-> n])
CreateScope(n) == Ok([op |-> "scope", node |-> n])
GrantAccess(n, account, capability, mode) ==
    Ok([op |-> "grant", node |-> n, account |-> account, capability |-> capability, mode |-> mode])
RevokeAccess(n, account, capability) ==
    Ok([op |-> "revoke", node |-> n, account |-> account, capability |-> capability])
SetIdentity(n, assignment) == Ok([op |-> "identity", node |-> n, identity |-> assignment])
ClearIdentity(n) == Ok([op |-> "clear_identity", node |-> n])

-----------------------------------------------------------------------------
(* Reads at a block.                                                       *)

Info(tree, n) ==
    IF n \in tree.nodes THEN [parent |-> tree.parent[n], scope |-> tree.scope[n]] ELSE None

\* A scope record: its owner and the number of node and account pairs with access.
ScopeInfo(tree, id) ==
    LET owners == {tree.scope[n].owner : n \in {m \in tree.nodes : tree.scope[m] # None /\ tree.scope[m].id = id}}
        pairs == {<<g.node, g.account>> : g \in {h \in tree.grants : h.scope = id}}
    IN IF owners = {} THEN None
       ELSE [owner |-> CHOOSE o \in owners : TRUE, access_count |-> Cardinality(pairs)]

NodeByIdentity(tree, account) ==
    LET bound == {n \in tree.nodes : tree.identity[n] = account}
    IN IF bound = {} THEN None ELSE CHOOSE n \in bound : TRUE

HasCapability(tree, n, account, capability) ==
    IF n \in tree.nodes THEN Ok(Capable(tree, n, account, capability)) ELSE Err("NodeNotFound")

ResolveScope(tree, n) ==
    IF n \in tree.nodes
    THEN Ok([id |-> ScopeOf(tree, n).id, root |-> Last(ScopePath(tree, n)),
             owner |-> ScopeOf(tree, n).owner, path |-> ScopePath(tree, n)])
    ELSE Err("NodeNotFound")

\* The projection of the tree onto identity accounts: a relative without an
\* identity has no name in it.
AddressView(tree, account, relatives) ==
    CASE NodeByIdentity(tree, account) = None -> Err("IdentityNotFound")
      [] \E n \in relatives : tree.identity[n] = None -> Err("MissingProjectedIdentity")
      [] OTHER -> Ok({tree.identity[n] : n \in relatives})

AddressChildren(tree, account) ==
    AddressView(tree, account, Children(tree, NodeByIdentity(tree, account)))

AddressParent(tree, account) ==
    LET n == NodeByIdentity(tree, account)
    IN AddressView(tree, account, IF n = None THEN {} ELSE {tree.parent[n]} \ {None})

-----------------------------------------------------------------------------
(* Identity permits.  A key signs the domain, the chain, the scope and the *)
(* last block at which the permit may be used; a signature says what it    *)
(* was made over.  The artifact repeats that beside the signature, so that *)
(* it can be checked without the chain.                                    *)

\* A block that is past, or further ahead of the latest finalized block than
\* the runtime allows, is refused.
IdentityPermitPayload(scope, until) ==
    LET now == Last(fin).number
    IN IF until < now \/ until > now + MaxPermitTtl THEN Err("Crypto")
       ELSE Ok([genesis |-> ThisChain, scope |-> scope, until |-> until])

Signature(payload, account) ==
    [by |-> account, genesis |-> payload.genesis, scope |-> payload.scope, until |-> payload.until]

Sign(payload, account) ==
    [payload |-> payload, identity |-> account, signature |-> Signature(payload, account)]

Verify(artifact) == artifact.signature = Signature(artifact.payload, artifact.identity)

\* The runtime gets the identity, the block and the signature, not the scope.
IntoAssignment(artifact) ==
    [account |-> artifact.identity,
     permit |-> [until |-> artifact.payload.until, signature |-> artifact.signature]]

-----------------------------------------------------------------------------
(* Submission.                                                             *)

\* The client-side intent of a create_scope, read in the finalized state.
CheckPrecondition(call) ==
    CASE call.op # "scope" -> None
      [] Info(FinalTree, call.node) = None -> "NodeNotFound"
      [] Info(FinalTree, call.node).scope # None -> "ScopeAlreadyExists"
      [] OTHER -> None

\* A caller hands over a transaction; the precondition is checked next.
Begin(c, k, who, call, wait) ==
    job' = [job EXCEPT ![c] = [pc |-> "check", k |-> k, who |-> who, call |-> call, wait |-> wait]]

Returns(c, result) == job' = [job EXCEPT ![c] = [pc |-> "returned", result |-> result]]

Check(c) ==
    /\ job[c].pc = "check"
    /\ LET error == CheckPrecondition(job[c].call)
       IN IF error = None THEN job' = [job EXCEPT ![c].pc = "sign"] ELSE Returns(c, error)
    /\ UNCHANGED <<chain, told>>

\* Signs with the nonce of the finalized state and hands the transaction to
\* the pool, which may refuse it; signing or sending may fail as well.
Submit(c) ==
    /\ job[c].pc = "sign"
    /\ LET tx == [client |-> c, k |-> job[c].k, who |-> job[c].who, call |-> job[c].call,
                  nonce |-> FinalTree.nonce[job[c].who]]
       IN \/ /\ PoolTakes(tx)
             /\ pool' = pool \union {tx}
             /\ job' = [job EXCEPT ![c] = [pc |-> "wait", tx |-> tx, wait |-> @.wait]]
             /\ UNCHANGED told
          \/ /\ Returns(c, "Transaction")
             /\ UNCHANGED <<pool, told>>
    /\ UNCHANGED <<fin, best>>

Tells(c, out) ==
    /\ told' = IF out = "Transaction" THEN told
               ELSE told \union {[tx |-> job[c].tx, wait |-> job[c].wait, out |-> out]}
    /\ Returns(c, out)

\* Runtime authorization and identity errors are recognized by name; any
\* other failed execution is a dispatch error, which is permanent.
Classify(error) ==
    IF error = None THEN "Ok" ELSE
    CASE error \in {"AccessDenied", "NotScopeOwner"} -> "AccessDenied"
      [] error \in {"IdentityAlreadyInUse", "IdentityNotSet", "IdentityPermitRequired",
                   "IdentityPermitExpired", "IdentityPermitTooLong", "InvalidIdentityPermit",
                   "RootIdentityMustBeCaller"} -> "Identity"
      [] OTHER -> "Dispatch"

\* Mutant: the first inclusion is taken for finality.
AwaitedAny(wait) == fin \o best

\* The blocks whose inclusion of the transaction the caller waits for.
Awaited(wait) == IF wait = "finalized" THEN fin ELSE fin \o best

\* The answers to a transaction that was executed without an error.
Succeeded == {"Ok", "Runtime"}

\* Failing to fetch the block or its events says nothing about the execution.
Unfetched == "Transaction"

\* The id of a new node or scope is decoded from the events of the executed
\* transaction, which may not hold it in a form this client knows.
Undecoded(call) == IF call.op \in {"create", "scope"} THEN {"Runtime"} ELSE {}

\* What a caller can be told of an included transaction (receipt).
Answers(call, error) ==
    {Unfetched, Classify(error)} \union (IF error = None THEN Undecoded(call) ELSE {})

Receipt(c) ==
    /\ job[c].pc = "wait"
    /\ LET blocks == Awaited(job[c].wait)
       IN /\ Included(blocks, job[c].tx) # {}
          /\ \E out \in Answers(job[c].tx.call, Outcome(blocks, job[c].tx)) : Tells(c, out)
    /\ UNCHANGED chain

\* The status stream breaks off or reports the transaction dropped or
\* invalid; it may have left the pool, or be included all the same later.
WatchFails(c) ==
    /\ job[c].pc = "wait"
    /\ Tells(c, "Transaction")
    /\ pool' \in {pool, pool \ {job[c].tx}}
    /\ UNCHANGED <<fin, best>>

ClientStep(c) == Check(c) \/ Submit(c) \/ Receipt(c) \/ WatchFails(c)

-----------------------------------------------------------------------------
(* Watching a field in finalized blocks.                                   *)

Updates(block, n, f) ==
    \E j \in DOMAIN block.done :
        /\ block.done[j].error = None
        /\ block.done[j].tx.call.op = "set"
        /\ block.done[j].tx.call.node = n
        /\ block.done[j].tx.call.field = f

\* Mutant: the value is read at the latest finalized block.
ChangeAtHead(i, n, f) == [block |-> i, value |-> FinalTree.data[n][f]]

\* The change a block makes to the field: its value at the end of that block.
ChangeIn(i, n, f) == [block |-> i, value |-> fin[i].tree.data[n][f]]

-----------------------------------------------------------------------------
ClientInit ==
    /\ ChainInit
    /\ job = [c \in Client |-> Idle]
    /\ told = {}

(***************************************************************************)
(* What a caller is told is what the finalized chain holds.  A transaction *)
(* awaited to finality is in a finalized block and was executed if the     *)
(* answer is success, or a Runtime error that its new id cannot be decoded *)
(* (PendingTransaction in cps.rs); and is in one and changed nothing if    *)
(* the answer is an error called permanent (denied, rejected identity,     *)
(* dispatch).  Whoever submits again after a Runtime error makes a second  *)
(* node.  A Transaction error says nothing (libcps/src/error.rs).          *)
(***************************************************************************)
OutcomeIsTrue ==
    \A t \in told : t.wait = "finalized" =>
        /\ Included(fin, t.tx) # {}
        /\ t.out \in Succeeded <=> Outcome(fin, t.tx) = None
=============================================================================
