---------------------------- MODULE MCOathAccounts ----------------------------
(* Accounts named alike but for their period, their case or a hidden         *)
(* issuer, and an issuer that reads like the prefix of a period.             *)
EXTENDS OathAccounts

MCLower == "a" :> "a" @@ "A" :> "a" @@ "_hidden" :> "_hidden"
a == <<"a">>

CONSTANTS old, strange, x, y

Foreign(id, name, kind, period, increasing) ==
    [id |-> id, name |-> name, kind |-> kind, period |-> period, moving |-> 0,
     first |-> 0, increasing |-> increasing, generated |-> FALSE]

MCExisting == {{},
               {Foreign(old, <<Numeral(60), Slash, a>>, "TOTP", 60, TRUE)},
               {Foreign(old, <<Numeral(0), Slash, a>>, "TOTP", 0, FALSE),
                Foreign(strange, <<<<"A">>>>, "other", 0, FALSE)}}

MCIssuers  == {<<>>, <<Numeral(60), Slash>>}
MCAccounts == {<<a>>, <<Colon, a>>}
MCNewNames == {<<<<"A">>>>, <<<<"_hidden">>, Colon, a>>, <<Numeral(60), Slash, a>>, <<a, Colon, a, a, a, a, a>>}
MCQueries  == {<<a>>, <<Numeral(60), Slash, a>>}

Symmetry == Permutations({x, y})
=============================================================================
