---------------------------- MODULE UrlContract ----------------------------
(***************************************************************************)
(* What include/violet/Networking/URL.h and include/violet-c/net/url.h     *)
(* promise of violet::net::Url: an object owns one parsed value or is      *)
(* empty, a call that fails names a mistake of its arguments and changes   *)
(* nothing, a move hands the value over and leaves its source empty, an    *)
(* accessor answers for the value the object owns.  There is no memory     *)
(* here (Url.tla has it), and no order in which mistakes are looked for:   *)
(* the headers do not say which of several is reported.                    *)
(***************************************************************************)
EXTENDS UrlFfi

CONSTANTS
  Urls,      \* the Url objects of a program
  HostKind,  \* Url::host of a value
  ABSENT     \* the object is not constructed

VARIABLES
  url,    \* object -> the value it owns, NULL when empty, or ABSENT
  reply   \* what the last call returned

Init ==
  /\ url = [u \in Urls |-> ABSENT]
  /\ reply = NULL

(* The codes that url.h comments as "empty input provided" and "input was  *)
(* not valid unicode".                                                     *)
TextMistakes(text) ==
  CASE text = NULL              -> {"URL_EMPTY"}
    [] text \in Texts \ Unicode -> {"URL_NOT_UNICODE"}
    [] OTHER                    -> {}

(* The mistakes of a text that Url::parse or Url::join reads: those of the *)
(* text itself, or the one that the url crate finds in it.                 *)
Mistakes(text, read) ==
  IF TextMistakes(text) # {} THEN TextMistakes(text)
                             ELSE { MapError(e) : e \in {read[text]} \ Values }

ParamMistakes(params) ==
  { ParamError(params[i]) : i \in { j \in DOMAIN params : params[j] # "pair" } }

(* A constructor of u: it names one of the mistakes, or there is none and  *)
(* u owns the value.                                                       *)
Construct(u, mistakes, value) ==
  \/ /\ mistakes = {}
     /\ url' = [url EXCEPT ![u] = value]
     /\ reply' = "URL_OK"
  \/ /\ reply' \in mistakes
     /\ url' = url

Parse(u, text) ==
  /\ url[u] = ABSENT
  /\ Construct(u, Mistakes(text, Parsed), Parsed[text])

(* url.h: `params' is NULL "if no parameters are needed". *)
ParseWithParams(u, text, params) ==
  \/ /\ params = NULL
     /\ Parse(u, text)
  \/ /\ params # NULL
     /\ url[u] = ABSENT
     /\ Construct(u, Mistakes(text, Parsed) \cup ParamMistakes(params),
                  WithQuery[Parsed[text]])

(* url.h: the base "must not be NULL"; an empty one is none of a call's    *)
(* concern as long as its text is no text.                                 *)
Join(u, base, text) ==
  /\ url[u] = ABSENT /\ url[base] # ABSENT
  /\ url[base] = NULL => TextMistakes(text) # {}
  /\ Construct(u, Mistakes(text, Joined[url[base]]), Joined[url[base]][text])

MoveConstruct(d, s) ==
  /\ url[d] = ABSENT /\ url[s] # ABSENT
  /\ url' = [url EXCEPT ![d] = url[s], ![s] = NULL]
  /\ reply' = reply

(* URL.h: frees what d owned and takes ownership from s. *)
MoveAssign(d, s) ==
  /\ d # s /\ url[d] # ABSENT /\ url[s] # ABSENT
  /\ url' = [url EXCEPT ![d] = url[s], ![s] = NULL]
  /\ reply' = reply

Destroy(u) ==
  /\ url[u] # ABSENT
  /\ url' = [url EXCEPT ![u] = ABSENT]
  /\ reply' = reply

ReadText(u) ==
  /\ url[u] # ABSENT
  /\ reply' = url[u]
  /\ url' = url

Host(u) ==
  /\ url[u] # ABSENT
  /\ reply' = IF url[u] = NULL \/ HostKind[url[u]] = "none"
              THEN NULL ELSE HostKind[url[u]]
  /\ url' = url

Next ==
  \E u \in Urls :
    \/ \E text \in Texts \cup {NULL} :
         \/ Parse(u, text)
         \/ \E params \in ParamLists : ParseWithParams(u, text, params)
         \/ \E base \in Urls : Join(u, base, text)
    \/ \E s \in Urls : MoveConstruct(u, s) \/ MoveAssign(u, s)
    \/ Destroy(u) \/ ReadText(u) \/ Host(u)

Spec == Init /\ [][Next]_<<url, reply>>
=============================================================================
