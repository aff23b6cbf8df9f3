---------------------------- MODULE MCMeshtastic ----------------------------
(***************************************************************************)
(* Small instances of the Meshtastic transport.  "p" names the payload     *)
(* <<"f", "f", "t">>, which just fits; "q" has four fragments and is too   *)
(* long; "x" in a last fragment of "p" is garbled, and so is the frame of  *)
(* "p" that counts five.  Nothing completes "r" or what "b" sends.         *)
(***************************************************************************)
EXTENDS MeshtasticIngress

MCSize == [b \in Body |-> IF b = "f" THEN 2 ELSE 1]

MCMessageIdOf(payload) ==
    CASE payload = <<"f", "f", "t">>      -> "p"
      [] payload = <<"f", "f", "f", "t">> -> "q"
      [] OTHER                            -> "none"

Frame(id, index, count, body) ==
    [id |-> id, index |-> index, count |-> count, body |-> body]

MCAir == [s \in Sender |->
    IF s = "a"
    THEN {Frame("p", 1, 3, "f"), Frame("p", 2, 3, "f"), Frame("p", 3, 3, "t"),
          Frame("p", 3, 3, "x"), Frame("p", 1, 5, "f"),
          Frame("q", 1, 4, "f"), Frame("q", 2, 4, "f"), Frame("q", 3, 4, "f"),
          Frame("r", 1, 2, "f")}
    ELSE {Frame("p", 2, 3, "f")}]

MCDecodes(payload) == payload # <<"x">>
=============================================================================
