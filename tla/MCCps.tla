------------------------------- MODULE MCCps -------------------------------
(* Two nodes and what a command adds, two accounts; the bridge writes node  *)
(* 2 beside a few commands.                                                 *)
EXTENDS CpsCommands, TLC

CONSTANTS alice, bob, carol

MCGenesis ==
    [nodes |-> {1, 2}, parent |-> [n \in Node |-> IF n = 2 THEN 1 ELSE None], next |-> 3,
     data |-> [n \in Node |-> NoData], identity |-> [n \in Node |-> IF n = 2 THEN carol ELSE None],
     scope |-> [n \in Node |-> IF n = 1 THEN [id |-> 1, owner |-> alice] ELSE None], scopes |-> 1,
     grants |-> {[scope |-> 1, node |-> 2, account |-> bob, capability |-> "write", mode |-> "node"]},
     nonce |-> [a \in Account |-> 0]]

BaseConfig == [blockchain |-> TRUE, suri |-> TRUE, url |-> TRUE, sealing |-> "sr25519", decrypt |-> TRUE]

MCConfig ==
    {BaseConfig, [BaseConfig EXCEPT !.blockchain = FALSE], [BaseConfig EXCEPT !.sealing = "not a point"]}

MCMessage ==
    {[id |-> "m", text |-> TRUE, size |-> 10, longer |-> 0],
     [id |-> "x", text |-> FALSE, size |-> 8192, longer |-> 2]}

At(n) == [kind |-> "node", node |-> n]
Of(a) == [kind |-> "addr", account |-> a]

Cmd(name, target) == [name |-> name, target |-> target, who |-> alice, wait |-> "finalized", at |-> None]

Data(v) == [form |-> v, m |-> v, size |-> 5]

\* Identity commands: an account, a permit, or both.
Bind(name, target, account, permit) ==
    Cmd(name, target) @@ [account |-> account, permit |-> permit, data |-> NoData]

Printed == [kind |-> "printed"]
Given(genesis, key, until) ==
    [kind |-> "given", artifact |-> Sign([genesis |-> genesis, scope |-> 1, until |-> until], key)]
Forged == [Given(ThisChain, alice, 1) EXCEPT !.artifact.identity = bob]

Issue(ttl, until) == Cmd("permit", At(2)) @@ [key |-> bob, ttl |-> ttl, valid_until |-> until]

Access(name, capability) ==
    Cmd(name, At(2)) @@ [account |-> bob, capability |-> capability, mode |-> "subtree"]

NoScript == {<<>>}

IdentityScript ==
    {<<Issue(None, None), Bind("create", At(1), bob, Printed)>>,
     <<Issue(2, None)>>, <<Issue(0, None), Bind("identity", At(2), alice, Printed)>>,
     <<[Issue(None, None) EXCEPT !.key = None], Bind("identity", At(2), None, Printed)>>,
     <<[Bind("identity", At(2), alice, None) EXCEPT !.who = bob]>>, <<Bind("identity", At(2), alice, None)>>,
     <<Bind("identity", At(2), None, Forged)>>, <<Bind("identity", At(2), None, Given("elsewhere", bob, 1))>>,
     <<Bind("create", NoParent, None, Printed)>>,
     <<Bind("create", NoParent, alice, None)>>, <<Cmd("children", Of(carol))>>, <<Cmd("parent", Of(carol))>>,
     <<Cmd("clear_identity", Of(carol)), Cmd("show", At(2))>>, <<Cmd("clear_identity", Of(bob))>>,
     <<Cmd("get_identity", At(2))>>, <<Cmd("get_identity", Of(bob))>>}

DataScript ==
    {<<[Cmd("clear", At(2)) EXCEPT !.who = bob] @@ [field |-> "payload"]>>,
     <<Cmd("set", At(2)) @@ [field |-> "payload", value |-> Data("binary")]>>,
     <<Cmd("set", At(2)) @@ [field |-> "meta", value |-> [Data("text") EXCEPT !.size = 1025]]>>,
     <<[Access("grant", "create-scope") EXCEPT !.wait = "best"]>>,
     <<Access("revoke", "write")>>, <<Access("check", "create-scope")>>,
     <<Cmd("delete", At(2))>>, <<Cmd("delete", At(1))>>,
     <<Cmd("scope", At(2))>>, <<Cmd("scope", At(1))>>, <<Cmd("scope_show", [kind |-> "scope", scope |-> 1])>>,
     <<[Cmd("watch", At(2)) EXCEPT !.who = None]>>,
     <<[Cmd("get", At(2)) EXCEPT !.at = "hash"] @@ [field |-> "payload"]>>,
     <<Cmd("children", At(1))>>, <<Cmd("resolve", At(2))>>}

MCScript == IdentityScript \union DataScript
=============================================================================
