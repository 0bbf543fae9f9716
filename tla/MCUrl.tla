------------------------------- MODULE MCUrl -------------------------------
(***************************************************************************)
(* Small instances of Url: two absolute texts, a relative one, one that is *)
(* not UTF-8; a value with a domain, one with an IPv4 and one with an IPv6 *)
(* host, the last only reached by joining or by adding a query.            *)
(***************************************************************************)
EXTENDS Url, TLC

CONSTANTS dom, four, six, absDom, absFour, rel, binary

MCValues  == {dom, four, six}
MCTexts   == {absDom, absFour, rel, binary}
MCUnicode == {absDom, absFour, rel}

MCParsed ==
  absDom :> dom @@ absFour :> four @@ rel :> "RelativeUrlWithoutBase"

MCJoined ==
  [v \in MCValues |->
     absDom :> dom @@ absFour :> "EmptyHost" @@ rel :> IF v = dom THEN six ELSE v]

MCWithQuery == dom :> dom @@ four :> six @@ six :> six

MCHostKind == dom :> "domain" @@ four :> "ipv4" @@ six :> "ipv6"

(* No array, an empty one, a good one, and arrays with one or two elements *)
(* at fault, the first of all or a later one.                              *)
MCParamLists ==
  { NULL, <<>>, <<"pair", "pair">>, <<"pair", "extra_equals">>,
    <<"not_unicode", "no_equals">> }

MCParamListsFew == { NULL, <<"pair", "pair">>, <<"pair", "extra_equals">> }

(* A Str that is a whole NUL-terminated text. *)
Whole(t) == [view |-> t, cstr |-> t]

MCArgs     == { Whole(t) : t \in MCTexts \cup {NULL} }
MCArgsFew  == { Whole(t) : t \in {absDom, absFour, rel} }

(* A Str cut out of a longer buffer, where the callee reads past its end,  *)
(* in place of a whole one.                                                *)
MCArgsCut  == {Whole(absDom), [view |-> absDom, cstr |-> absFour], Whole(rel)}

MCArgsAll  == MCArgs \cup MCArgsCut

Symmetric == Permutations(Handles) \cup Permutations(Urls)
=============================================================================
