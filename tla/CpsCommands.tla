---------------------------- MODULE CpsCommands ----------------------------
(***************************************************************************)
(* The cps command line beside the bridge.  An invocation resolves its     *)
(* settings, connects, and either reads everything it shows at one pinned  *)
(* block, follows a field through finalized blocks, or resolves its target *)
(* to a node, submits one transaction and waits for it as the wait policy  *)
(* says.  Exit status 0 is success, 1 a denied access check, 2 any error.  *)
(***************************************************************************)
EXTENDS MqttBridge

CONSTANT Script       \* the sequences of invocations considered

Writes == {"set", "clear", "create", "delete", "scope", "grant", "revoke", "identity", "clear_identity"}

Readers == {"show", "get", "check", "parent", "children", "resolve", "permit", "scope_show", "get_identity"}

Commands == UNION {Range(script) : script \in Script}

\* The invocations are those the command line parses.
ASSUME ScriptConstants ==
    /\ "cli" \in Client
    /\ Script \subseteq Seq(Commands)
    /\ \A cmd \in Commands :
          /\ cmd.name \in Writes \union Readers \union {"watch"}
          /\ cmd.name = "get" => cmd.field \in Field
          /\ cmd.who \in Account \union {None}

VARIABLE cli

\* What a reading command asks of the pinned block, in the order it asks.
Asks(cmd) ==
    CASE cmd.name = "show"     -> <<"info", "identity", "meta", "payload", "scope", "parent">>
      [] cmd.name = "get"      -> <<cmd.field>>
      [] cmd.name = "check"    -> <<"capability">>
      [] cmd.name = "parent"   -> <<"parent">>
      [] cmd.name = "children" -> <<"children">>
      [] cmd.name \in {"resolve", "permit"} -> <<"scope">>
      [] cmd.name = "scope_show" -> <<"scope_info">>
      [] cmd.name = "get_identity" -> <<"identity">>

\* No invocation runs.  file is what the last one that printed a permit left
\* to later ones.
NoCommand(todo, file, status) ==
    [pc |-> "idle", cmd |-> None, node |-> None, at |-> 1, vals |-> <<>>,
     status |-> status, todo |-> todo, file |-> file]

Ends(status) == cli' = NoCommand(cli.todo, cli.file, status)

\* A target is a node or the account that is the identity of one.
NodeId(tree, target) ==
    CASE target.kind = "node" -> IF Info(tree, target.node) = None THEN None ELSE target.node
      [] target.kind = "addr" -> NodeByIdentity(tree, target.account)
      [] OTHER -> None

-----------------------------------------------------------------------------
\* Settings are resolved, input is read and sealed, the endpoint connected
\* to; a command that writes needs an account.
Invoke ==
    /\ cli.pc = "idle" /\ cli.todo # <<>>
    /\ \E connected \in BOOLEAN :
        LET cmd == Head(cli.todo)
            rest(status) == NoCommand(Tail(cli.todo), cli.file, status)
        IN  cli' = IF connected /\ (cmd.name \in Writes => cmd.who # None)
                   THEN [rest(None) EXCEPT !.pc = "resolve", !.cmd = cmd]
                   ELSE rest(2)
    /\ UNCHANGED <<chain, client, bridge>>

\* A reader pins the latest finalized block, or the one named by --at.
PinBlock ==
    /\ cli.pc = "resolve" /\ cli.cmd.name \notin Writes \union {"watch"}
    /\ \E at \in IF cli.cmd.at = None THEN {Len(fin)} ELSE DOMAIN fin :
        LET n == NodeId(fin[at].tree, cli.cmd.target)
        IN IF cli.cmd.target.kind # "scope" /\ n = None THEN Ends(2)
           ELSE cli' = [cli EXCEPT !.pc = "read", !.at = at, !.node = n]
    /\ UNCHANGED <<chain, client, bridge>>

\* A create without --parent makes a root node.
NoParent == [kind |-> "none"]

\* canonical: the target of a write is resolved in the finalized state.
Canonical ==
    /\ cli.pc = "resolve" /\ cli.cmd.name \in Writes \union {"watch"}
    /\ LET n == NodeId(FinalTree, cli.cmd.target)
       IN IF cli.cmd.target # NoParent /\ n = None THEN Ends(2)
          ELSE cli' = [cli EXCEPT !.pc = IF cli.cmd.name = "watch" THEN "watch" ELSE "prepare",
                                  !.at = Len(fin), !.node = n]
    /\ UNCHANGED <<chain, client, bridge>>

\* One read; each is a request of its own, and the chain goes on meanwhile.
Answer(cmd, tree, n, what) ==
    LET target == cmd.target IN
    CASE what = "info"     -> Ok(Info(tree, n))
      [] what = "identity" -> Ok(tree.identity[n])
      [] what \in Field    -> Ok(tree.data[n][what])
      [] what = "scope"    -> ResolveScope(tree, n)
      [] what = "scope_info" ->
            IF ScopeInfo(tree, target.scope) = None THEN Err("not found")
            ELSE Ok(ScopeInfo(tree, target.scope))
      [] what = "children" ->
            IF target.kind = "node" THEN Ok(Children(tree, n)) ELSE AddressChildren(tree, target.account)
      [] what = "parent"   ->
            IF target.kind = "node" THEN Ok({tree.parent[n]} \ {None}) ELSE AddressParent(tree, target.account)
      [] what = "capability" -> HasCapability(tree, n, cmd.account, cmd.capability)

\* Mutant: every read goes to the latest finalized block.
ReadsLatest == FinalTree

\* The tree every read of the invocation uses.
Reads == fin[cli.at].tree

Read ==
    /\ cli.pc = "read" /\ Len(cli.vals) < Len(Asks(cli.cmd))
    /\ LET what == Asks(cli.cmd)[Len(cli.vals) + 1]
           answer == Answer(cli.cmd, Reads, cli.node, what)
       IN \/ answer.ok /\ cli' = [cli EXCEPT !.vals = Append(@, answer.value)]
          \/ Ends(2)
    /\ UNCHANGED <<chain, client, bridge>>

\* A denied check exits with 1, what could not be answered with 2.
Show ==
    /\ cli.pc = "read" /\ Len(cli.vals) = Len(Asks(cli.cmd)) /\ cli.cmd.name # "permit"
    /\ Ends(CASE cli.cmd.name = "check" /\ ~cli.vals[1] -> 1
              [] cli.cmd.name = "get_identity" /\ cli.vals[1] = None -> 2
              [] OTHER -> 0)
    /\ UNCHANGED <<chain, client, bridge>>

\* Every update is printed; unlike the bridge, a failed block ends the command.
Watch ==
    /\ cli.pc = "watch"
    /\ \/ cli.at < Len(fin) /\ cli' = [cli EXCEPT !.at = @ + 1]
       \/ cli.at < Len(fin) /\ Ends(2)
       \/ Ends(0)
    /\ UNCHANGED <<chain, client, bridge>>

(***************************************************************************)
(* identity permit: the scope is read at the pinned block and the ttl      *)
(* counted from it, but the range is checked against the block that is     *)
(* finalized by then.  (A ttl that overflows the block number is refused   *)
(* as one above the limit is.)  --unsigned prints what is to be signed,    *)
(* which is no permit artifact.                                            *)
(***************************************************************************)
DEFAULT_TTL == 600

ValidUntil(cmd, now) ==
    CASE cmd.valid_until # None -> cmd.valid_until
      [] cmd.ttl # None -> now + cmd.ttl
      [] OTHER -> now + Min({DEFAULT_TTL, MaxPermitTtl})

Permit ==
    /\ cli.pc = "read" /\ Len(cli.vals) = Len(Asks(cli.cmd)) /\ cli.cmd.name = "permit"
    /\ LET payload == IdentityPermitPayload(cli.vals[1].id, ValidUntil(cli.cmd, fin[cli.at].number))
       IN IF ~payload.ok THEN Ends(2)
          ELSE cli' = NoCommand(cli.todo,
                                IF cli.cmd.key = None THEN None ELSE Sign(payload.value, cli.cmd.key),
                                0)
    /\ UNCHANGED <<chain, client, bridge>>

\* --permit names what an earlier invocation printed, or a file from elsewhere;
\* None is no permit artifact.
LoadPermit(source) == IF source.kind = "printed" THEN cli.file ELSE source.artifact

\* Refuses a permit that cannot work in the scope of the node: the pallet
\* would, but only after a transaction was spent on it.
CheckPermit(artifact, scope_node) ==
    LET scope == ResolveScope(FinalTree, scope_node) IN
    /\ Verify(artifact)
    /\ artifact.payload.genesis = ThisChain
    /\ scope.ok /\ artifact.payload.scope = scope.value.id
    /\ artifact.payload.until >= Last(fin).number

\* The identity to bind: of a permit, or an account without one, or none.
Assignment(cmd, scope_node) ==
    LET artifact == LoadPermit(cmd.permit) IN
    CASE cmd.permit # None /\ artifact = None -> Err("invalid permit")
      [] cmd.permit # None /\ cmd.account \notin {None, artifact.identity} -> Err("differs")
      [] cmd.permit # None /\ scope_node = None -> Err("a permit needs a parent")
      [] cmd.permit # None -> IF CheckPermit(artifact, scope_node) THEN Ok(IntoAssignment(artifact))
                              ELSE Err("permit")
      [] cmd.account # None -> Ok([account |-> cmd.account, permit |-> None])
      [] OTHER -> Ok(None)

-----------------------------------------------------------------------------
(* The transaction a writing command builds for its node.                  *)

BuildField(cmd, n) == SetField(n, cmd.field, IF cmd.name = "clear" THEN None ELSE cmd.value)

BuildCreate(cmd, parent) ==
    LET identity == Assignment(cmd, parent)
    IN IF identity.ok THEN CreateNode(parent, cmd.data, identity.value) ELSE identity

\* Asks for a leaf, in the finalized state.
BuildDelete(n) == IF Children(FinalTree, n) # {} THEN Err("has children") ELSE DeleteNode(n)

BuildAccess(cmd, n) ==
    IF cmd.name = "grant" THEN GrantAccess(n, cmd.account, cmd.capability, cmd.mode)
    ELSE RevokeAccess(n, cmd.account, cmd.capability)

BuildIdentity(cmd, n) ==
    LET identity == Assignment(cmd, n)
    IN IF identity.ok THEN SetIdentity(n, identity.value) ELSE identity

Build(cmd, n) ==
    CASE cmd.name \in {"set", "clear"}    -> BuildField(cmd, n)
      [] cmd.name = "create"              -> BuildCreate(cmd, n)
      [] cmd.name = "delete"              -> BuildDelete(n)
      [] cmd.name = "scope"               -> CreateScope(n)
      [] cmd.name \in {"grant", "revoke"} -> BuildAccess(cmd, n)
      [] cmd.name = "identity"            -> BuildIdentity(cmd, n)
      [] cmd.name = "clear_identity"      -> ClearIdentity(n)

\* The transaction is built and handed over; delete asks for confirmation,
\* which may be refused (0) or impossible to ask for (2).
Prepare ==
    /\ cli.pc = "prepare" /\ job["cli"].pc = "idle"
    /\ LET call == Build(cli.cmd, cli.node)
       IN \/ ~call.ok /\ Ends(2) /\ UNCHANGED job
          \/ call.ok /\ cli.cmd.name = "delete" /\ (Ends(0) \/ Ends(2)) /\ UNCHANGED job
          \/ /\ call.ok
             /\ Begin("cli", Len(cli.todo), cli.cmd.who, call.value, cli.cmd.wait)
             /\ cli' = [cli EXCEPT !.pc = "submit"]
    /\ UNCHANGED <<chain, told, bridge>>

Done ==
    /\ cli.pc = "submit" /\ job["cli"].pc = "returned"
    /\ Ends(IF job["cli"].result = "Ok" THEN 0 ELSE 2)
    /\ job' = [job EXCEPT !["cli"] = Idle]
    /\ UNCHANGED <<chain, told, bridge>>

-----------------------------------------------------------------------------
Init ==
    /\ ClientInit /\ BridgeInit
    /\ \E script \in Script : cli = NoCommand(script, None, None)

Next ==
    \/ /\ ChainNext /\ UNCHANGED <<client, bridge, cli>>
    \/ /\ BridgeNext /\ UNCHANGED cli
    \/ /\ ClientStep("cli") /\ UNCHANGED <<bridge, cli>>
    \/ Invoke \/ PinBlock \/ Canonical \/ Read \/ Show \/ Permit \/ Watch \/ Prepare \/ Done

Spec == Init /\ [][Next]_<<chain, client, bridge, cli>>

(***************************************************************************)
(* What a reading command has gathered is the state of one finalized       *)
(* block, however many requests it took and whatever was finalized in      *)
(* between (CpsAt, nav::show).                                             *)
(***************************************************************************)
ShownIsOneBlock ==
    cli.pc = "read" => \E b \in DOMAIN fin :
        /\ NodeId(fin[b].tree, cli.cmd.target) = cli.node
        /\ \A i \in DOMAIN cli.vals :
              Answer(cli.cmd, fin[b].tree, cli.node, Asks(cli.cmd)[i]) = Ok(cli.vals[i])
=============================================================================
