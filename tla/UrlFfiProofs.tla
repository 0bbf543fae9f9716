---------------------------- MODULE UrlFfiProofs ----------------------------
(***************************************************************************)
(* What the fallible entry points of rust/url/lib.rs answer, for every     *)
(* meaning of the parsing functions and every argument.                    *)
(***************************************************************************)
EXTENDS UrlFfi, TLAPS, WellFoundedInduction

(* Whatever it is given, a fallible call answers with a value or with one  *)
(* of the codes of violet_net_url_error_t other than URL_OK.               *)
LEMMA LiftTyped ==
  ASSUME NEW r \in Values \cup ParseErrors
  PROVE  Lift(r) \in Values \cup ErrorCodes
  BY DEF Lift, MapError, ErrorCodes

LEMMA NewOutcomeTyped ==
  ASSUME NEW text \in Texts \cup {NULL}
  PROVE  NewOutcome(text) \in Values \cup ErrorCodes
<1>1. CASE InputError(text) # "URL_OK"
  BY <1>1 DEF NewOutcome, InputError, ErrorCodes
<1>2. CASE InputError(text) = "URL_OK"
  <2>1. text \in Unicode
    BY <1>2, FfiAssumption DEF InputError
  <2>2. Parsed[text] \in Values \cup ParseErrors
    BY <2>1, FfiAssumption
  <2> QED
    BY <1>2, <2>2, LiftTyped DEF NewOutcome
<1> QED
  BY <1>1, <1>2

LEMMA JoinOutcomeTyped ==
  ASSUME NEW text \in Texts \cup {NULL}, NEW base \in Values
  PROVE  JoinOutcome(base, text) \in Values \cup ErrorCodes
<1>1. CASE InputError(text) # "URL_OK"
  BY <1>1 DEF JoinOutcome, InputError, ErrorCodes
<1>2. CASE InputError(text) = "URL_OK"
  <2>1. text \in Unicode
    BY <1>2, FfiAssumption DEF InputError
  <2>2. Joined[base][text] \in Values \cup ParseErrors
    BY <2>1, FfiAssumption
  <2> QED
    BY <1>2, <2>2, LiftTyped DEF JoinOutcome
<1> QED
  BY <1>1, <1>2

(* The element loop picks the first element it cannot split. *)
LEMMA FirstBadIsBad ==
  ASSUME NEW params \in Seq(ParamKinds), Bad(params) # {}
  PROVE  /\ FirstBad(params) \in Bad(params)
         /\ \A j \in Bad(params) : FirstBad(params) <= j
<1>1. Bad(params) \subseteq Nat
  BY DEF Bad
<1>2. IsWellFoundedOn({p \in Nat \X Nat : p[1] < p[2]}, Nat)
  BY NatLessThanWellFounded, Zenon DEF OpToRel
<1>3. PICK i \in Bad(params) :
        \A j \in Bad(params) : ~ (<<j, i>> \in {p \in Nat \X Nat : p[1] < p[2]})
  BY <1>1, <1>2, WFMin
<1>4. \A j \in Bad(params) : i <= j
  <2>1. TAKE j \in Bad(params)
  <2>2. i \in Nat /\ j \in Nat /\ <<j, i>> \in Nat \X Nat
    BY <1>1
  <2>3. ~ (<<j, i>>[1] < <<j, i>>[2])
    BY <1>3, <2>2, Zenon
  <2> QED
    BY <2>2, <2>3
<1> QED
  BY <1>4 DEF FirstBad

LEMMA NewWithParamsOutcomeTyped ==
  ASSUME NEW text \in Texts \cup {NULL}, NEW params \in ParamLists
  PROVE  NewWithParamsOutcome(text, params) \in Values \cup ErrorCodes
<1>1. CASE text = NULL \/ params = NULL
  BY <1>1 DEF NewWithParamsOutcome, ErrorCodes
<1>2. CASE text \in Texts \ Unicode /\ params # NULL
  BY <1>2, FfiAssumption DEF NewWithParamsOutcome, ErrorCodes
<1>3. CASE text \in Unicode /\ params # NULL
  <2>1. params \in Seq(ParamKinds)
    BY <1>3, FfiAssumption
  <2>2. CASE Bad(params) # {}
    <3>1. params[FirstBad(params)] \in ParamKinds \ {"pair"}
      BY <2>1, <2>2, FirstBadIsBad DEF Bad
    <3>2. ParamError(params[FirstBad(params)]) \in ErrorCodes
      BY <3>1 DEF ParamError, ParamKinds, ErrorCodes
    <3> QED
      BY <1>3, <2>2, <3>2, FfiAssumption DEF NewWithParamsOutcome
  <2>3. CASE Bad(params) = {}
    <3>1. Parsed[text] \in Values \cup ParseErrors
      BY <1>3, FfiAssumption
    <3>2. MapError(Parsed[text]) \in ErrorCodes
      BY DEF MapError, ErrorCodes
    <3>3. NewWithParamsOutcome(text, params)
            = IF Parsed[text] \in Values THEN WithQuery[Parsed[text]]
                                         ELSE MapError(Parsed[text])
      BY <1>3, <2>3, FfiAssumption DEF NewWithParamsOutcome
    <3> QED
      BY <3>1, <3>2, <3>3, FfiAssumption
  <2> QED
    BY <2>2, <2>3
<1> QED
  BY <1>1, <1>2, <1>3, FfiAssumption

(* A code that is written on failure is neither URL_OK nor mistaken for a  *)
(* value.                                                                  *)
LEMMA ErrorCodesApart ==
  /\ "URL_OK" \notin ErrorCodes
  /\ ErrorCodes \cap Values = {}
  /\ NULL \notin Values
  BY FfiAssumption DEF ErrorCodes
=============================================================================
