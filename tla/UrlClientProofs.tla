-------------------------- MODULE UrlClientProofs --------------------------
(***************************************************************************)
(* Theorems about UrlClient for any number of variables and addresses,     *)
(* any texts and any meaning of the parsing functions.                     *)
(***************************************************************************)
EXTENDS UrlClient, UrlFfiProofs

(* What the program believes of a variable is what the heap says of it.    *)
Believed ==
  /\ \A p \in owned : ptr[p] \in Handles /\ box[ptr[p]] # NULL
  /\ \A p \in Pointers \ owned : ptr[p] = NULL

(* No two of its variables hold the same address. *)
Distinct ==
  \A p, q \in owned : ptr[p] = ptr[q] => p = q

(* Every Box is held by a variable of it. *)
Reachable ==
  \A h \in Handles : box[h] # NULL => \E p \in owned : ptr[p] = h

(* The inductive invariant. *)
Bookkeeping ==
  /\ TypeOK
  /\ NeverFaults
  /\ Believed
  /\ Distinct
  /\ Reachable
  /\ ViewsLive

LEMMA BookkeepingHolds ==
  Bookkeeping => EachBoxHeld
  BY ClientAssumption
  DEF Bookkeeping, Believed, Distinct, Reachable, TypeOK, EachBoxHeld
-----------------------------------------------------------------------------
(* The steps, one lemma each. *)

LEMMA InitBookkeeping == Init => Bookkeeping
  BY FfiAssumption, ClientAssumption
  DEF Init, Bookkeeping, TypeOK, Believed, Distinct, Reachable, ViewsLive,
      NeverFaults, Codes, ErrorCodes

(* The code and the handle say the same, so that whichever the caller goes *)
(* by, it owns exactly the Boxes it was given.                             *)
LEMMA ReturnKeeps ==
  ASSUME Bookkeeping, NEW p \in Pointers \ owned, NEW asked \in BOOLEAN,
         NEW outcome \in Values \cup ErrorCodes, Return(p, asked, outcome)
  PROVE  Bookkeeping'
<1>1. CASE /\ outcome \notin Values
           /\ MapErrorPtr(asked, outcome)
           /\ Take(p, asked, NULL)
           /\ UNCHANGED <<box, cstr, views, fault, closing>>
  <2>1. error' \in Codes /\ (asked => error' # "URL_OK")
    BY <1>1, ErrorCodesApart DEF MapErrorPtr, Codes, Bookkeeping, TypeOK
  <2>2. ptr' = [ptr EXCEPT ![p] = NULL] /\ owned' = owned
    BY <1>1, <2>1 DEF Take
  <2>3. ptr' = ptr
    BY <2>2 DEF Bookkeeping, TypeOK, Believed
  <2> QED
    BY <1>1, <2>1, <2>2, <2>3
       DEF Bookkeeping, TypeOK, Believed, Distinct, Reachable, ViewsLive, NeverFaults
<1>2. CASE /\ outcome \in Values
           /\ MapErrorPtr(asked, "URL_OK")
           /\ \E h \in Handles : /\ box[h] = NULL
                                 /\ box' = [box EXCEPT ![h] = outcome]
                                 /\ Take(p, asked, h)
           /\ UNCHANGED <<cstr, views, fault, closing>>
  <2>1. PICK h \in Handles : /\ box[h] = NULL
                             /\ box' = [box EXCEPT ![h] = outcome]
                             /\ Take(p, asked, h)
    BY <1>2
  <2>2. error' \in Codes /\ (asked => error' = "URL_OK")
    BY <1>2 DEF MapErrorPtr, Codes, Bookkeeping, TypeOK
  <2>3. h # NULL /\ outcome # NULL
    BY <1>2, ErrorCodesApart, ClientAssumption
  <2>4. ptr' = [ptr EXCEPT ![p] = h] /\ owned' = owned \cup {p}
    BY <2>1, <2>2, <2>3 DEF Take
  <2>5. \A q \in owned : ptr[q] # h
    BY <2>1 DEF Bookkeeping, Believed
  <2> USE <1>2, <2>1, <2>3, <2>4, <2>5
  <2>6. TypeOK'
    BY <2>2 DEF Bookkeeping, TypeOK
  <2>7. Believed'
    BY DEF Bookkeeping, TypeOK, Believed
  <2>8. Distinct'
    BY DEF Bookkeeping, TypeOK, Distinct
  <2>9. Reachable'
    BY DEF Bookkeeping, TypeOK, Reachable
  <2>10. ViewsLive'
    BY DEF Bookkeeping, TypeOK, ViewsLive
  <2> QED
    BY <2>6, <2>7, <2>8, <2>9, <2>10 DEF Bookkeeping, NeverFaults
<1> QED
  BY <1>1, <1>2 DEF Return

LEMMA JoinKeeps ==
  ASSUME Bookkeeping, NEW p \in Pointers, NEW base \in Pointers,
         NEW text \in Texts \cup {NULL}, NEW asked \in BOOLEAN,
         Join(p, base, text, asked)
  PROVE  Bookkeeping'
<1>1. ptr[base] # NULL /\ box[ptr[base]] # NULL /\ box[ptr[base]] \in Values
  BY ClientAssumption DEF Join, Bookkeeping, TypeOK, Believed
<1>2. p \in Pointers \ owned
  BY DEF Join
<1>3. CASE InputError(text) # "URL_OK" /\ Return(p, asked, InputError(text))
  <2>1. InputError(text) \in ErrorCodes
    BY <1>3 DEF InputError, ErrorCodes
  <2> QED
    BY <1>2, <1>3, <2>1, ReturnKeeps
<1>4. CASE Return(p, asked, JoinOutcome(box[ptr[base]], text))
  BY <1>1, <1>2, <1>4, JoinOutcomeTyped, ReturnKeeps
<1> QED
  BY <1>1, <1>3, <1>4 DEF Join

(* A new view is into the Box of its URL, into a C string made for it, or  *)
(* into the frame of an IPv6 host.                                         *)
LEMMA SeeKeeps ==
  ASSUME Bookkeeping, NEW p \in owned,
         NEW mem \in {ptr[p], FRAME} \cup CStrings, See(p, mem),
         cstr' \in [CStrings -> {"free", "host", "error"}],
         \A c \in CStrings : cstr[c] = "host" => cstr'[c] = "host",
         mem \in CStrings => cstr'[mem] = "host",
         UNCHANGED <<ptr, owned, error, box, fault, closing>>
  PROVE  Bookkeeping'
<1>1. p \in Pointers /\ ptr[p] \in Handles /\ box[ptr[p]] # NULL
  BY DEF Bookkeeping, TypeOK, Believed
<1>2. ptr[p] \notin CStrings /\ FRAME \notin CStrings /\ FRAME \notin Handles
  BY <1>1, ClientAssumption
<1>3. TypeOK'
  BY <1>1 DEF See, Bookkeeping, TypeOK
<1>4. ViewsLive'
  <2>1. ASSUME NEW v \in views
        PROVE  /\ v.of \in owned'
               /\ v.mem \in Handles => v.mem = ptr'[v.of] /\ box'[v.mem] # NULL
               /\ v.mem \in CStrings => cstr'[v.mem] = "host"
    BY <2>1 DEF Bookkeeping, ViewsLive
  <2>2. /\ p \in owned'
        /\ mem \in Handles => mem = ptr'[p] /\ box'[mem] # NULL
        /\ mem \in CStrings => cstr'[mem] = "host"
    BY <1>1, <1>2, ClientAssumption
  <2> QED
    BY <2>1, <2>2 DEF See, ViewsLive
<1> QED
  BY <1>3, <1>4 DEF Bookkeeping, NeverFaults, Believed, Distinct, Reachable

LEMMA ReadKeeps ==
  ASSUME Bookkeeping, NEW p \in Pointers, Read(p)
  PROVE  Bookkeeping'
<1>1. p \in owned /\ box[ptr[p]] # NULL
  BY DEF Read, Bookkeeping, Believed
<1>2. ptr[p] \in Handles /\ ptr[p] \notin CStrings
  BY <1>1, ClientAssumption DEF Bookkeeping, Believed
<1>3. See(p, ptr[p]) /\ UNCHANGED <<ptr, owned, error, box, cstr, fault, closing>>
  BY <1>1 DEF Read
<1>4. cstr' = cstr /\ cstr \in [CStrings -> {"free", "host", "error"}]
  BY <1>3 DEF Bookkeeping, TypeOK
<1> QED
  BY <1>1, <1>2, <1>3, <1>4, SeeKeeps

LEMMA HostKeeps ==
  ASSUME Bookkeeping, NEW p \in Pointers, Host(p)
  PROVE  Bookkeeping'
<1>1. p \in owned /\ box[ptr[p]] # NULL
  BY DEF Host, Bookkeeping, Believed
<1>2. /\ ptr[p] \in Handles /\ ptr[p] \notin CStrings
      /\ FRAME \notin CStrings
  BY <1>1, ClientAssumption DEF Bookkeeping, Believed
<1>3. cstr \in [CStrings -> {"free", "host", "error"}]
  BY DEF Bookkeeping, TypeOK
<1>4. UNCHANGED <<ptr, owned, error, box, fault, closing>>
  BY <1>1 DEF Host
<1>5. CASE See(p, ptr[p]) /\ UNCHANGED cstr
  BY <1>1, <1>2, <1>3, <1>4, <1>5, SeeKeeps
<1>6. CASE See(p, FRAME) /\ UNCHANGED cstr
  BY <1>1, <1>2, <1>3, <1>4, <1>6, SeeKeeps
<1>7. CASE \E c \in CStrings : /\ cstr[c] = "free"
                               /\ cstr' = [cstr EXCEPT ![c] = "host"]
                               /\ See(p, c)
  <2>1. PICK c \in CStrings : /\ cstr[c] = "free"
                              /\ cstr' = [cstr EXCEPT ![c] = "host"]
                              /\ See(p, c)
    BY <1>7
  <2>2. /\ cstr' \in [CStrings -> {"free", "host", "error"}]
        /\ cstr'[c] = "host"
        /\ \A d \in CStrings : cstr[d] = "host" => cstr'[d] = "host"
    BY <1>3, <2>1
  <2> QED
    BY <1>1, <1>4, <2>1, <2>2, SeeKeeps
<1> QED
  BY <1>1, <1>5, <1>6, <1>7 DEF Host

(* The Box goes with its variable and the views of it; the addresses of    *)
(* the others are different, so theirs stay.                               *)
LEMMA FreeKeeps ==
  ASSUME Bookkeeping, NEW p \in Pointers, Free(p)
  PROVE  Bookkeeping'
<1>1. p \in owned /\ ptr[p] \in Handles /\ ptr[p] # NULL /\ box[ptr[p]] # NULL
  BY ClientAssumption DEF Free, Bookkeeping, Believed
<1>2. /\ box' = [h \in Handles |-> IF h = ptr[p] THEN NULL ELSE box[h]]
      /\ owned' = owned \ {p}
      /\ ptr' = [ptr EXCEPT ![p] = NULL]
      /\ views' = { v \in views : v.of # p }
      /\ UNCHANGED <<error, cstr, fault, closing>>
  BY <1>1 DEF Free
<1> USE <1>1, <1>2
<1>3. TypeOK'
  BY DEF Bookkeeping, TypeOK
<1>4. Believed'
  BY DEF Bookkeeping, TypeOK, Believed, Distinct
<1>5. Distinct'
  BY DEF Bookkeeping, TypeOK, Distinct
<1>6. Reachable'
  BY DEF Bookkeeping, TypeOK, Reachable
<1>7. ViewsLive'
  BY DEF Bookkeeping, TypeOK, ViewsLive, Distinct
<1> QED
  BY <1>3, <1>4, <1>5, <1>6, <1>7 DEF Bookkeeping, NeverFaults

(* Error texts are nobody's view. *)
LEMMA TextsKeep ==
  ASSUME Bookkeeping, StrError \/ \E c \in CStrings : FreeText(c)
  PROVE  Bookkeeping'
<1>1. PICK c \in CStrings :
        /\ cstr[c] # "host"
        /\ cstr' \in {[cstr EXCEPT ![c] = "error"], [cstr EXCEPT ![c] = "free"]}
  BY DEF StrError, FreeText
<1>2. UNCHANGED <<ptr, owned, error, box, views, fault, closing>>
  BY DEF StrError, FreeText
<1>3. TypeOK'
  BY <1>1, <1>2 DEF Bookkeeping, TypeOK
<1>4. ViewsLive'
  BY <1>1, <1>2 DEF Bookkeeping, TypeOK, ViewsLive
<1> QED
  BY <1>2, <1>3, <1>4 DEF Bookkeeping, NeverFaults, Believed, Distinct, Reachable

LEMMA NextKeeps == Bookkeeping /\ [Next]_vars => Bookkeeping'
<1> SUFFICES ASSUME Bookkeeping, [Next]_vars PROVE Bookkeeping'
  OBVIOUS
<1>1. ASSUME NEW p \in Pointers, NEW asked \in BOOLEAN,
             NEW text \in Texts \cup {NULL}, New(p, text, asked)
      PROVE  Bookkeeping'
  BY <1>1, NewOutcomeTyped, ReturnKeeps DEF New
<1>2. ASSUME NEW p \in Pointers, NEW asked \in BOOLEAN,
             NEW text \in Texts \cup {NULL}, NEW params \in ParamLists,
             NewWithParams(p, text, params, asked)
      PROVE  Bookkeeping'
  BY <1>2, NewWithParamsOutcomeTyped, ReturnKeeps DEF NewWithParams
<1>3. ASSUME NEW p \in Pointers, NEW base \in Pointers, NEW asked \in BOOLEAN,
             NEW text \in Texts \cup {NULL}, Join(p, base, text, asked)
      PROVE  Bookkeeping'
  BY <1>3, JoinKeeps
<1>4. ASSUME NEW p \in Pointers, Read(p) \/ Host(p) \/ Free(p)
      PROVE  Bookkeeping'
  BY <1>4, ReadKeeps, HostKeeps, FreeKeeps
<1>5. CASE StrError \/ \E c \in CStrings : FreeText(c)
  BY <1>5, TextsKeep
<1>6. CASE Close \/ UNCHANGED vars
  <2>1. /\ UNCHANGED <<ptr, owned, error, box, cstr, views, fault>>
        /\ closing' \in BOOLEAN
    BY <1>6 DEF Close, vars, Bookkeeping, TypeOK
  <2> QED
    BY <2>1 DEF Bookkeeping, TypeOK, NeverFaults, Believed, Distinct, Reachable,
                ViewsLive
<1> QED
  BY <1>1, <1>2, <1>3, <1>4, <1>5, <1>6 DEF Next
-----------------------------------------------------------------------------
(* The theorems. *)

(* Every reachable state is well typed: no raw parse error reaches the     *)
(* out-parameter, and no variable holds anything but an address or NULL.   *)
THEOREM TypeCorrect == Spec => []TypeOK
<1>1. Bookkeeping => TypeOK
  BY DEF Bookkeeping
<1> QED
  BY <1>1, InitBookkeeping, NextKeeps, PTL DEF Spec

(* A program that keeps to the header uses no handle that is null or       *)
(* freed, in whatever order it makes its calls and whichever of them fail. *)
THEOREM NoFault == Spec => []NeverFaults
<1>1. Bookkeeping => NeverFaults
  BY DEF Bookkeeping
<1> QED
  BY <1>1, InitBookkeeping, NextKeeps, PTL DEF Spec

(* Every allocated Box is in exactly one variable, which the program knows *)
(* to own it, although `error' keeps its value through calls that were     *)
(* given no out-parameter.                                                 *)
THEOREM BoxesHeld == Spec => []EachBoxHeld
  BY BookkeepingHolds, InitBookkeeping, NextKeeps, PTL DEF Spec

(* A view is good until its own URL is freed, whatever is freed besides.   *)
THEOREM ViewsOfUrls == Spec => []ViewsLive
<1>1. Bookkeeping => ViewsLive
  BY DEF Bookkeeping
<1> QED
  BY <1>1, InitBookkeeping, NextKeeps, PTL DEF Spec

(* No call but the free of the variable that holds it drops or changes an  *)
(* allocated Box; a join only reads its base.                              *)
THEOREM FreesDrop == Spec => OnlyFreeDrops
<1> DEFINE Dropped(h) == \E p \in owned \ owned' : ptr[p] = h /\ box'[h] = NULL
<1>1. ASSUME TypeOK, Next, NEW h \in Handles, box[h] # NULL, box'[h] # box[h]
      PROVE  Dropped(h)
  <2>1. ASSUME NEW p, NEW asked, NEW outcome, Return(p, asked, outcome)
        PROVE  FALSE
    BY <1>1, <2>1 DEF Return, TypeOK
  <2>2. ASSUME NEW f, Stop(f) PROVE FALSE
    BY <1>1, <2>2 DEF Stop
  <2>3. ASSUME NEW p \in Pointers, Free(p) PROVE Dropped(h)
    BY <1>1, <2>2, <2>3 DEF Free, TypeOK
  <2>4. ASSUME NEW p \in Pointers, Read(p) \/ Host(p) PROVE FALSE
    BY <1>1, <2>2, <2>4 DEF Read, Host
  <2>5. CASE StrError \/ Close \/ \E c \in CStrings : FreeText(c)
    BY <1>1, <2>5 DEF StrError, Close, FreeText
  <2>6. ASSUME NEW p \in Pointers, NEW asked \in BOOLEAN, NEW text,
               \/ New(p, text, asked)
               \/ \E params \in ParamLists : NewWithParams(p, text, params, asked)
               \/ \E base \in Pointers : Join(p, base, text, asked)
        PROVE  FALSE
    BY <2>1, <2>2, <2>6 DEF New, NewWithParams, Join
  <2> QED
    BY <1>1, <2>3, <2>4, <2>5, <2>6 DEF Next
<1>2. TypeOK /\ [Next]_vars
        => [\A h \in Handles :
              box[h] # NULL /\ box'[h] # box[h] => Dropped(h)]_vars
  BY <1>1 DEF vars
<1> QED
  BY <1>2, TypeCorrect, PTL DEF Spec, OnlyFreeDrops
=============================================================================
