------------------------------- MODULE UrlFfi -------------------------------
(***************************************************************************)
(* The fallible entry points of rust/url/lib.rs: what violet_net_url_new,  *)
(* violet_net_url_new_with_params and violet_net_url_join decide for their *)
(* arguments.  An outcome is either the url::Url that ends up in a fresh   *)
(* Box or the violet_net_url_error_t written through the out-parameter.    *)
(* The url crate itself is external: what it parses is the constant        *)
(* functions Parsed, Joined and WithQuery.                                 *)
(***************************************************************************)
EXTENDS Naturals, Sequences

CONSTANTS
  Values,      \* url::Url values
  Texts,       \* NUL-terminated byte strings
  Unicode,     \* those Texts that are valid UTF-8
  ParamLists,  \* `params` arguments: NULL or a sequence of ParamKinds
  Parsed,      \* Url::parse
  Joined,      \* Url::join
  WithQuery,   \* the value once the pairs are appended to its query
  NULL         \* nullptr

(* What new_with_params tells apart in one element of `params`. *)
ParamKinds == {"pair", "no_equals", "extra_equals", "not_unicode"}

(* url::ParseError, which is non-exhaustive: "Other" is any later variant. *)
ParseErrors ==
  { "EmptyHost", "IdnaError", "InvalidPort", "InvalidIpv4Address",
    "InvalidIpv6Address", "InvalidDomainCharacter", "RelativeUrlWithoutBase",
    "RelativeUrlWithCannotBeABaseBase", "SetHostOnCannotBeABaseUrl",
    "Overflow", "Other" }

(* violet_net_url_error_t::map *)
MapError(e) ==
  CASE e = "EmptyHost"              -> "URL_EMPTY_HOST"
    [] e = "IdnaError"              -> "URL_IDNA_ERROR"
    [] e = "InvalidPort"            -> "URL_INVALID_PORT"
    [] e = "InvalidIpv4Address"     -> "URL_INVALID_IPV4_ADDRESS"
    [] e = "InvalidIpv6Address"     -> "URL_INVALID_IPV6_ADDRESS"
    [] e = "InvalidDomainCharacter" -> "URL_INVALID_DOMAIN_CHARACTER"
    [] e = "RelativeUrlWithoutBase" -> "URL_RELATIVE_URL_WITHOUT_BASE"
    [] e = "RelativeUrlWithCannotBeABaseBase"
         -> "URL_RELATIVE_URL_WITH_CANNOT_BE_A_BASE_BASE"
    [] e = "SetHostOnCannotBeABaseUrl"
         -> "URL_SET_HOST_ON_CANNOT_BE_A_BASE_URL"
    [] e = "Overflow"               -> "URL_OVERFLOW"
    [] OTHER                        -> "URL_UNKNOWN"

(* The codes a failing call may write: all of them but URL_OK. *)
ErrorCodes ==
  { "URL_EMPTY", "URL_NOT_UNICODE", "URL_INVALID_PARAM_STRING",
    "URL_EXTRA_CHAR_IN_PARAM_STRING", "URL_EMPTY_HOST", "URL_IDNA_ERROR",
    "URL_INVALID_PORT", "URL_INVALID_IPV4_ADDRESS", "URL_INVALID_IPV6_ADDRESS",
    "URL_INVALID_DOMAIN_CHARACTER", "URL_RELATIVE_URL_WITHOUT_BASE",
    "URL_RELATIVE_URL_WITH_CANNOT_BE_A_BASE_BASE",
    "URL_SET_HOST_ON_CANNOT_BE_A_BASE_URL", "URL_OVERFLOW", "URL_UNKNOWN" }

ASSUME FfiAssumption ==
  /\ NULL \notin Values \cup Texts
  /\ Unicode \subseteq Texts
  /\ Values \cap (ErrorCodes \cup ParseErrors) = {}
  /\ ParamLists \subseteq Seq(ParamKinds) \cup {NULL}
  /\ Parsed \in [Unicode -> Values \cup ParseErrors]
  /\ Joined \in [Values -> [Unicode -> Values \cup ParseErrors]]
  /\ WithQuery \in [Values -> Values]
-----------------------------------------------------------------------------

(* `Ok(url)' keeps the value, `Err(err)' is mapped. *)
Lift(r) == IF r \in Values THEN r ELSE MapError(r)

(* The checks every entry point makes on its string before using it. *)
InputError(text) ==
  CASE text = NULL                       -> "URL_EMPTY"
    [] text \notin Unicode \cup {NULL}    -> "URL_NOT_UNICODE"
    [] OTHER                             -> "URL_OK"

(* Mutated NewOutcome: the ParseError is not mapped to a code. *)
NewOutcomeUnmapped(text) ==
  IF InputError(text) # "URL_OK" THEN InputError(text) ELSE Parsed[text]

(* violet_net_url_t::new *)
NewOutcome(text) ==
  IF InputError(text) # "URL_OK" THEN InputError(text) ELSE Lift(Parsed[text])

JoinOutcome(base, text) ==
  IF InputError(text) # "URL_OK" THEN InputError(text)
                                 ELSE Lift(Joined[base][text])

ParamError(kind) ==
  CASE kind = "not_unicode"  -> "URL_NOT_UNICODE"
    [] kind = "no_equals"    -> "URL_INVALID_PARAM_STRING"
    [] kind = "extra_equals" -> "URL_EXTRA_CHAR_IN_PARAM_STRING"

(* The loop over `params' stops at the first element it cannot split. *)
Bad(params) == { i \in 1..Len(params) : params[i] # "pair" }

FirstBad(params) == CHOOSE i \in Bad(params) : \A j \in Bad(params) : i <= j

(* Mutated NewWithParamsOutcome: an element it cannot split is skipped.    *)
NewWithParamsOutcomeSkipping(text, params) ==
  CASE NULL \in {text, params} -> "URL_EMPTY"
    [] NULL \notin {text, params} /\ text \notin Unicode -> "URL_NOT_UNICODE"
    [] OTHER -> IF Parsed[text] \in Values THEN WithQuery[Parsed[text]]
                                          ELSE MapError(Parsed[text])

(* The element loop runs before Url::parse_with_params parses the input.   *)
NewWithParamsOutcome(text, params) ==
  CASE NULL \in {text, params} -> "URL_EMPTY"
    [] NULL \notin {text, params} /\ text \notin Unicode -> "URL_NOT_UNICODE"
    [] OTHER -> IF Bad(params) # {} THEN ParamError(params[FirstBad(params)])
                ELSE IF Parsed[text] \in Values THEN WithQuery[Parsed[text]]
                ELSE MapError(Parsed[text])
=============================================================================
