---------------------------- MODULE MCUrlClient ----------------------------
(***************************************************************************)
(* Programs with two URLs: an absolute text of a domain and one of an IPv4 *)
(* address, a relative one and one that is not UTF-8.                      *)
(***************************************************************************)
EXTENDS UrlClient, TLC

CONSTANTS dom, four, six, absDom, absFour, rel, binary

MCValues  == {dom, four, six}
MCTexts   == {absDom, absFour, rel, binary}
MCUnicode == {absDom, absFour, rel}

MCParsed ==
  absDom :> dom @@ absFour :> four @@ rel :> "RelativeUrlWithoutBase"

MCJoined ==
  [v \in MCValues |->
     absDom :> dom @@ absFour :> "Other" @@ rel :> IF v = dom THEN six ELSE v]

MCWithQuery == dom :> dom @@ four :> six @@ six :> six

MCHostKind == dom :> "domain" @@ four :> "ipv4" @@ six :> "ipv6"

(* One good list, one with a bad element, and none at all. *)
MCParamLists == { <<"pair", "pair">>, <<"pair", "no_equals">>, NULL }
=============================================================================
