----------------------------- MODULE UrlProofs -----------------------------
(***************************************************************************)
(* Theorems about Url for every set of objects, addresses, values and      *)
(* texts, and for every meaning of the parsing functions.                  *)
(***************************************************************************)
EXTENDS Url, UrlFfiProofs
-----------------------------------------------------------------------------
(* The steps, one lemma each. *)

LEMMA InitDiscipline == Init => Discipline
  BY UrlAssumption
  DEF Init, Discipline, TypeOK, ExclusiveOwner, HandlesLive, NothingLost,
      BorrowedViewsLive, FaultsBlamed, Replies

(* A free address is nobody's untainted handle, so giving it to u makes u  *)
(* its only owner.                                                         *)
LEMMA ConstructKeeps ==
  ASSUME Discipline, NEW u \in Urls, handle[u] = ABSENT,
         NEW outcome \in Values \cup ErrorCodes, Construct(u, outcome)
  PROVE  Discipline'
<1>1. CASE /\ outcome \notin Values
           /\ reply' = outcome
           /\ UNCHANGED <<handle, box, views, cstr, fault, tainted>>
  BY <1>1 DEF Discipline, TypeOK, ExclusiveOwner, HandlesLive, NothingLost,
              BorrowedViewsLive, FaultsBlamed, Replies
<1>2. CASE /\ outcome \in Values
           /\ \E h \in Handles :
                /\ box[h] = NULL
                /\ box' = [box EXCEPT ![h] = outcome]
                /\ handle' = [handle EXCEPT ![u] = h]
           /\ reply' = "URL_OK"
           /\ UNCHANGED <<views, cstr, fault, tainted>>
  <2>1. PICK h \in Handles : /\ box[h] = NULL
                             /\ box' = [box EXCEPT ![h] = outcome]
                             /\ handle' = [handle EXCEPT ![u] = h]
    BY <1>2
  <2>2. outcome # NULL
    BY <1>2, FfiAssumption
  <2>3. TypeOK'
    BY <1>2, <2>1 DEF Discipline, TypeOK, Replies
  <2>4. h \in tainted \/ \A o \in Urls : handle[o] # h
    BY <2>1 DEF Discipline, HandlesLive
  <2>5. ExclusiveOwner'
    BY <1>2, <2>1, <2>4 DEF Discipline, TypeOK, ExclusiveOwner
  <2>6. HandlesLive'
    BY <1>2, <2>1, <2>2 DEF Discipline, TypeOK, HandlesLive
  <2>7. NothingLost'
    BY <1>2, <2>1, UrlAssumption DEF Discipline, TypeOK, NothingLost
  <2>8. BorrowedViewsLive'
    BY <1>2, <2>1, <2>2, UrlAssumption DEF Discipline, TypeOK, BorrowedViewsLive
  <2>9. FaultsBlamed'
    BY <1>2 DEF Discipline, FaultsBlamed
  <2> QED
    BY <2>3, <2>5, <2>6, <2>7, <2>8, <2>9 DEF Discipline
<1> QED
  BY <1>1, <1>2 DEF Construct

(* Only a tainted handle can dangle, so only a taint leads to a fault of   *)
(* the heap.                                                               *)
LEMMA StopKeeps ==
  ASSUME Discipline,
         NEW f \in {"null_deref", "use_after_free", "double_free", "assertion"},
         f \in {"use_after_free", "double_free"} => tainted # {},
         Stop(f)
  PROVE  Discipline'
  BY DEF Stop, Discipline, TypeOK, ExclusiveOwner, HandlesLive, NothingLost,
         BorrowedViewsLive, FaultsBlamed, Replies

LEMMA DanglingTainted ==
  ASSUME Discipline, NEW u \in Urls, Dangling(u)
  PROVE  tainted # {}
  BY DEF Discipline, HandlesLive, Dangling

LEMMA JoinKeeps ==
  ASSUME Discipline, NEW u \in Urls, NEW base \in Urls, NEW arg \in Args,
         Join(u, base, arg)
  PROVE  Discipline'
<1>1. arg.cstr \in Texts \cup {NULL}
  BY UrlAssumption DEF Texts0
<1>2. CASE InputError(arg.cstr) # "URL_OK" /\ Construct(u, InputError(arg.cstr))
  <2>1. InputError(arg.cstr) \in ErrorCodes
    BY <1>2 DEF InputError, ErrorCodes
  <2> QED
    BY <1>2, <2>1, ConstructKeeps DEF Join
<1>3. CASE Stop("null_deref")
  BY <1>3, StopKeeps
<1>4. CASE Dangling(base) /\ Stop("use_after_free")
  BY <1>4, StopKeeps, DanglingTainted
<1>5. CASE Live(base) /\ Construct(u, JoinOutcome(box[handle[base]], arg.cstr))
  <2>1. box[handle[base]] \in Values
    BY <1>5 DEF Live, Discipline, TypeOK
  <2> QED
    BY <1>1, <1>5, <2>1, JoinOutcomeTyped, ConstructKeeps DEF Join
<1> QED
  BY <1>2, <1>3, <1>4, <1>5 DEF Join

(* The handle leaves s as it arrives at d, and the views follow it. *)
LEMMA MoveConstructKeeps ==
  ASSUME Discipline, NEW d \in Urls, NEW s \in Urls, MoveConstruct(d, s)
  PROVE  Discipline'
<1> USE UrlAssumption DEF MoveConstruct, Constructed
<1>1. TypeOK'
  BY DEF Discipline, TypeOK
<1>2. ExclusiveOwner'
  BY DEF Discipline, TypeOK, ExclusiveOwner
<1>3. HandlesLive'
  BY DEF Discipline, TypeOK, HandlesLive
<1>4. NothingLost'
  BY DEF Discipline, TypeOK, NothingLost
<1>5. BorrowedViewsLive'
  BY DEF Discipline, TypeOK, BorrowedViewsLive
<1>6. FaultsBlamed'
  BY DEF Discipline, FaultsBlamed
<1> QED
  BY <1>1, <1>2, <1>3, <1>4, <1>5, <1>6 DEF Discipline

(* Both handles are tainted, so nothing is promised of them any more. *)
LEMMA MoveAssignKeeps ==
  ASSUME Discipline, NEW d \in Urls, NEW s \in Urls, fault = "none",
         MoveAssign(d, s)
  PROVE  Discipline'
<1> USE UrlAssumption DEF MoveAssign, Constructed
<1>1. TypeOK'
  BY DEF Discipline, TypeOK
<1>2. ExclusiveOwner'
  BY DEF Discipline, TypeOK, ExclusiveOwner
<1>3. HandlesLive'
  BY DEF Discipline, TypeOK, HandlesLive
<1>4. NothingLost'
  BY DEF Discipline, TypeOK, NothingLost
<1>5. BorrowedViewsLive'
  BY DEF Discipline, TypeOK, BorrowedViewsLive
<1>6. FaultsBlamed'
  BY DEF Discipline, FaultsBlamed
<1> QED
  BY <1>1, <1>2, <1>3, <1>4, <1>5, <1>6 DEF Discipline

(* The Box goes with its only owner and with the views borrowed from it. *)
LEMMA DestroyKeeps ==
  ASSUME Discipline, NEW u \in Urls, Destroy(u)
  PROVE  Discipline'
<1>1. CASE Dangling(u) /\ Stop("double_free")
  BY <1>1, StopKeeps, DanglingTainted
<1>2. CASE /\ ~Dangling(u)
           /\ box' = [h \in Handles |-> IF h = handle[u] THEN NULL ELSE box[h]]
           /\ handle' = [handle EXCEPT ![u] = ABSENT]
           /\ views' = { v \in views : v.url # u }
           /\ UNCHANGED <<cstr, reply, fault, tainted>>
  <2> USE <1>2, UrlAssumption
  <2>1. TypeOK'
    BY DEF Discipline, TypeOK
  <2>2. ExclusiveOwner'
    BY DEF Discipline, TypeOK, ExclusiveOwner
  <2>3. HandlesLive'
    BY DEF Discipline, TypeOK, HandlesLive, ExclusiveOwner
  <2>4. NothingLost'
    BY DEF Discipline, TypeOK, NothingLost
  <2>5. BorrowedViewsLive'
    BY DEF Discipline, TypeOK, BorrowedViewsLive, ExclusiveOwner
  <2>6. FaultsBlamed'
    BY DEF Discipline, FaultsBlamed
  <2> QED
    BY <2>1, <2>2, <2>3, <2>4, <2>5, <2>6 DEF Discipline
<1> QED
  BY <1>1, <1>2 DEF Free, Destroy

LEMMA AccessorGuardKeeps ==
  ASSUME Discipline, NEW u \in Urls, AccessorGuard(u)
  PROVE  Discipline'
<1>1. CASE Stop("assertion")
  BY <1>1, StopKeeps
<1>2. CASE reply' = NULL /\ UNCHANGED <<handle, box, views, cstr, fault, tainted>>
  BY <1>2 DEF Discipline, TypeOK, ExclusiveOwner, HandlesLive, NothingLost,
              BorrowedViewsLive, FaultsBlamed, Replies
<1>3. CASE Dangling(u) /\ Stop("use_after_free")
  BY <1>3, StopKeeps, DanglingTainted
<1> QED
  BY <1>1, <1>2, <1>3 DEF AccessorGuard

(* What every accessor of a live object leaves true: its new views, if     *)
(* they borrow from a Box at all, borrow from the Box of the object.       *)
LEMMA LiveAccessKeeps ==
  ASSUME Discipline, NEW u \in Urls, Live(u),
         UNCHANGED <<handle, box, fault, tainted>>,
         reply' \in Replies,
         cstr' \in [CStrings -> {"free", "host", "error"}],
         NEW new \in SUBSET [url : {u}, mem : {handle[u]} \cup CStrings \cup {FRAME}],
         views' = views \cup new
  PROVE  Discipline'
<1> USE UrlAssumption DEF Live
<1>1. TypeOK'
  BY DEF Discipline, TypeOK
<1>2. BorrowedViewsLive'
  BY DEF Discipline, TypeOK, BorrowedViewsLive
<1>3. ExclusiveOwner' /\ HandlesLive' /\ NothingLost' /\ FaultsBlamed'
  BY DEF Discipline, ExclusiveOwner, HandlesLive, NothingLost, FaultsBlamed
<1> QED
  BY <1>1, <1>2, <1>3 DEF Discipline

LEMMA ReadTextKeeps ==
  ASSUME Discipline, NEW u \in Urls, ReadText(u)
  PROVE  Discipline'
<1>1. CASE AccessorGuard(u)
  BY <1>1, AccessorGuardKeeps
<1>2. CASE /\ Live(u)
           /\ reply' = box[handle[u]]
           /\ views' \in { views, views \cup {[url |-> u, mem |-> handle[u]]} }
           /\ UNCHANGED <<handle, box, cstr, fault, tainted>>
  <2>1. reply' \in Replies /\ cstr' \in [CStrings -> {"free", "host", "error"}]
    BY <1>2 DEF Discipline, TypeOK, Live, Replies
  <2>2. PICK new \in {{}, {[url |-> u, mem |-> handle[u]]}} : views' = views \cup new
    BY <1>2
  <2>3. new \in SUBSET [url : {u}, mem : {handle[u]} \cup CStrings \cup {FRAME}]
    BY <2>2
  <2> QED
    BY <1>2, <2>1, <2>2, <2>3, LiveAccessKeeps
<1> QED
  BY <1>1, <1>2 DEF Borrow, View, ReadText

LEMMA HostKeeps ==
  ASSUME Discipline, NEW u \in Urls, Host(u)
  PROVE  Discipline'
<1> DEFINE kind == HostKind[box[handle[u]]]
           New  == SUBSET [url : {u}, mem : {handle[u]} \cup CStrings \cup {FRAME}]
<1>1. CASE AccessorGuard(u)
  BY <1>1, AccessorGuardKeeps
<1>2. CASE /\ Live(u)
           /\ reply' = IF kind = "none" THEN NULL ELSE kind
           /\ \/ kind = "none" /\ UNCHANGED <<views, cstr>>
              \/ /\ kind = "domain"
                 /\ views' = views \cup {[url |-> u, mem |-> handle[u]]}
                 /\ UNCHANGED cstr
              \/ kind = "ipv4" /\ HostString(u)
              \/ /\ kind = "ipv6"
                 /\ views' = views \cup {[url |-> u, mem |-> FRAME]}
                 /\ UNCHANGED cstr
           /\ UNCHANGED <<handle, box, fault, tainted>>
  <2>1. kind \in {"domain", "ipv4", "ipv6", "none"}
    BY <1>2, UrlAssumption DEF Live, Discipline, TypeOK
  <2>2. reply' \in Replies
    BY <1>2, <2>1 DEF Replies
  <2>3. cstr' \in [CStrings -> {"free", "host", "error"}]
    BY <1>2 DEF View, Discipline, TypeOK, HostString
  <2>4. /\ {} \in New
        /\ \A m \in {handle[u]} \cup CStrings \cup {FRAME} :
             {[url |-> u, mem |-> m]} \in New
    OBVIOUS
  <2>5. \E new \in New : views' = views \cup new
    <3> HIDE DEF New, kind
    <3>1. CASE views' = views
      BY <3>1, <2>4
    <3>2. CASE \E m \in {handle[u]} \cup CStrings \cup {FRAME} :
                 views' = views \cup {[url |-> u, mem |-> m]}
      BY <3>2, <2>4
    <3> QED
      BY <1>2, <3>1, <3>2 DEF View, HostString
  <2> HIDE DEF kind
  <2> QED
    BY <1>2, <2>2, <2>3, <2>5, LiveAccessKeeps
<1> QED
  BY <1>1, <1>2 DEF View, Host

LEMMA ErrorToStringKeeps ==
  ASSUME Discipline, ErrorToString
  PROVE  Discipline'
  BY DEF StrError, ErrorToString, Discipline, TypeOK, ExclusiveOwner, HandlesLive,
         NothingLost, BorrowedViewsLive, FaultsBlamed, Replies

LEMMA UseKeeps ==
  ASSUME Discipline, Use
  PROVE  Discipline'
<1>1. CASE \E u \in Urls, arg \in Args : Parse(u, arg)
  BY <1>1, UrlAssumption, NewOutcomeTyped, ConstructKeeps DEF Parse, Texts0
<1>2. CASE \E u \in Urls, arg \in Args, params \in ParamLists :
             ParseWithParams(u, arg, params)
  BY <1>2, UrlAssumption, NewWithParamsOutcomeTyped, ConstructKeeps
     DEF ParseWithParams, Texts0
<1>3. CASE \E u, base \in Urls, arg \in Args : Join(u, base, arg)
  BY <1>3, JoinKeeps
<1>4. CASE \E u, s \in Urls : MoveConstruct(u, s)
  BY <1>4, MoveConstructKeeps
<1>5. CASE \E u \in Urls : Destroy(u)
  BY <1>5, DestroyKeeps
<1>6. CASE \E u \in Urls : ReadText(u)
  BY <1>6, ReadTextKeeps
<1>7. CASE \E u \in Urls : Host(u)
  BY <1>7, HostKeeps
<1>8. CASE ErrorToString
  BY <1>8, ErrorToStringKeeps
<1> QED
  BY <1>1, <1>2, <1>3, <1>4, <1>5, <1>6, <1>7, <1>8 DEF Use

LEMMA NextKeeps == Discipline /\ [Next]_vars => Discipline'
<1> SUFFICES ASSUME Discipline, [Next]_vars PROVE Discipline'
  OBVIOUS
<1>1. CASE Use
  BY <1>1, UseKeeps
<1>2. CASE Assign
  BY <1>2, MoveAssignKeeps DEF Assign
<1>3. CASE UNCHANGED vars
  BY <1>3 DEF vars, Discipline, TypeOK, ExclusiveOwner, HandlesLive,
              NothingLost, BorrowedViewsLive, FaultsBlamed, Replies
<1> QED
  BY <1>1, <1>2, <1>3 DEF Next
-----------------------------------------------------------------------------
(* The theorems. *)

(* Every reachable state is well typed: no raw parse error, no URL_OK out  *)
(* of a failed call, no handle to anything but the heap.                   *)
THEOREM TypeCorrect == Spec => []TypeOK
<1>1. Discipline => TypeOK
  BY DEF Discipline
<1> QED
  BY <1>1, InitDiscipline, NextKeeps, PTL DEF Spec

(* Whatever a program does, a handle that no move assignment touched is    *)
(* in the hands of one object.                                             *)
THEOREM OneOwner == Spec => []ExclusiveOwner
<1>1. Discipline => ExclusiveOwner
  BY DEF Discipline
<1> QED
  BY <1>1, InitDiscipline, NextKeeps, PTL DEF Spec

(* Such a handle never dangles, for any number of objects that take over   *)
(* each other's addresses.                                                 *)
THEOREM LiveHandles == Spec => []HandlesLive
<1>1. Discipline => HandlesLive
  BY DEF Discipline
<1> QED
  BY <1>1, InitDiscipline, NextKeeps, PTL DEF Spec

(* Such a Box is never out of reach of the destructors, whichever calls    *)
(* fail on the way.                                                        *)
THEOREM NothingIsLost == Spec => []NothingLost
<1>1. Discipline => NothingLost
  BY DEF Discipline
<1> QED
  BY <1>1, InitDiscipline, NextKeeps, PTL DEF Spec

(* A view that borrows from such a Box follows its object through every    *)
(* move and never outlives it.                                             *)
THEOREM ViewsOfOwners == Spec => []BorrowedViewsLive
<1>1. Discipline => BorrowedViewsLive
  BY DEF Discipline
<1> QED
  BY <1>1, InitDiscipline, NextKeeps, PTL DEF Spec

(* A use after free or a double free has a move assignment in its past.    *)
THEOREM FaultsAreBlamed == Spec => []FaultsBlamed
<1>1. Discipline => FaultsBlamed
  BY DEF Discipline
<1> QED
  BY <1>1, InitDiscipline, NextKeeps, PTL DEF Spec

(* A Box's content never changes while it is allocated, and no call but    *)
(* the destructor of an object that holds its address frees it.            *)
THEOREM OwnersFree == Spec => OnlyOwnersFree
<1> DEFINE Freed(h) ==
      /\ box'[h] = NULL
      /\ \E u \in Urls : handle[u] = h /\ handle'[u] = ABSENT
<1>1. ASSUME TypeOK, Next, NEW h \in Handles, box[h] # NULL, box'[h] # box[h]
      PROVE  Freed(h)
  <2>1. ASSUME NEW u \in Urls, NEW outcome, Construct(u, outcome)
        PROVE  FALSE
    BY <1>1, <2>1 DEF Construct, TypeOK
  <2>2. ASSUME NEW f, Stop(f) PROVE FALSE
    BY <1>1, <2>2 DEF Stop
  <2>3. ASSUME NEW u \in Urls, AccessorGuard(u) PROVE FALSE
    BY <1>1, <2>2, <2>3 DEF AccessorGuard
  <2>4. ASSUME NEW u \in Urls, Destroy(u) PROVE Freed(h)
    BY <1>1, <2>2, <2>4, UrlAssumption DEF Free, Destroy, TypeOK, Constructed
  <2>5. CASE Assign
    BY <1>1, <2>5 DEF Assign, MoveAssign
  <2>6. CASE Use
    <3>1. ASSUME NEW u \in Urls, NEW base \in Urls, NEW arg \in Args,
                 Join(u, base, arg)
          PROVE  FALSE
      BY <2>1, <2>2, <3>1 DEF Join
    <3>2. ASSUME NEW u \in Urls, ReadText(u) \/ Host(u) PROVE FALSE
      BY <1>1, <2>3, <3>2 DEF Borrow, ReadText, Host
    <3>3. ASSUME NEW u \in Urls, NEW s \in Urls, MoveConstruct(u, s) PROVE FALSE
      BY <1>1, <3>3 DEF MoveConstruct
    <3>4. ASSUME ErrorToString PROVE FALSE
      BY <1>1, <3>4 DEF ErrorToString
    <3>5. ASSUME NEW u \in Urls, NEW arg \in Args,
                 \/ Parse(u, arg)
                 \/ \E params \in ParamLists : ParseWithParams(u, arg, params)
          PROVE  FALSE
      BY <2>1, <3>5 DEF Parse, ParseWithParams
    <3> QED
      BY <2>4, <2>6, <3>1, <3>2, <3>3, <3>4, <3>5 DEF Use
  <2> QED
    BY <1>1, <2>5, <2>6 DEF Next
<1>2. TypeOK /\ [Next]_vars
        => [\A h \in Handles : box[h] # NULL /\ box'[h] # box[h] => Freed(h)]_vars
  BY <1>1
<1> QED
  BY <1>2, TypeCorrect, PTL DEF Spec, OnlyOwnersFree
-----------------------------------------------------------------------------
(* Refinement of the documented contract. *)

UseInv == Discipline /\ tainted = {}

LEMMA UseInvariant == UseSpec => []UseInv
<1>1. Init => UseInv
  BY InitDiscipline DEF UseInv, Init
<1>2. UseInv /\ [Use]_vars => UseInv'
  <2> SUFFICES ASSUME UseInv, [Use]_vars PROVE UseInv'
    OBVIOUS
  <2>1. Discipline'
    BY NextKeeps DEF UseInv, Next
  <2>2. tainted' = tainted
    BY DEF Use, Parse, ParseWithParams, Join, Construct, Stop, MoveConstruct,
           Free, Destroy, AccessorGuard, View, Borrow, ReadText, Host, StrError,
           ErrorToString, vars
  <2> QED
    BY <2>1, <2>2 DEF UseInv
<1> QED
  BY <1>1, <1>2, PTL DEF UseSpec

(* The contract and lib.rs call a mistake by the same code. *)
LEMMA SameCodes ==
  ASSUME NEW e
  PROVE  /\ Contract!MapError(e) = MapError(e)
         /\ Contract!ParamError(e) = ParamError(e)
  BY DEF Contract!MapError, MapError, Contract!ParamError, ParamError

(* The check of a text before it is used finds what is wrong with it. *)
LEMMA TextChecked ==
  ASSUME NEW text \in Texts0
  PROVE  /\ InputError(text) # "URL_OK" => Contract!TextMistakes(text) = {InputError(text)}
         /\ InputError(text) = "URL_OK" => /\ Contract!TextMistakes(text) = {}
                                          /\ text \in Unicode
  BY FfiAssumption DEF Texts0, InputError, Contract!TextMistakes

LEMMA OwnedValues ==
  ASSUME UseInv, NEW u \in Urls
  PROVE  /\ Owned[u] \in Values \cup {NULL, ABSENT}
         /\ Owned[u] = ABSENT <=> handle[u] = ABSENT
         /\ Owned[u] = NULL <=> handle[u] = NULL
         /\ ~Dangling(u)
         /\ Live(u) => Owned[u] = box[handle[u]] /\ Owned[u] \in Values
  BY FfiAssumption, UrlAssumption
     DEF UseInv, Discipline, TypeOK, HandlesLive, Owned, Dangling, Live

(* A fresh Box belongs to nobody else, so only u comes to own its value. *)
LEMMA ConstructRefines ==
  ASSUME UseInv, NEW u \in Urls, handle[u] = ABSENT, NEW outcome,
         Construct(u, outcome), NEW mistakes, NEW value,
         outcome \in Values => mistakes = {} /\ value = outcome,
         outcome \notin Values => outcome \in mistakes
  PROVE  Contract!Construct(u, mistakes, value)
<1>1. CASE /\ outcome \notin Values
           /\ reply' = outcome
           /\ UNCHANGED <<handle, box, views, cstr, fault, tainted>>
  BY <1>1 DEF Contract!Construct, Owned
<1>2. CASE /\ outcome \in Values
           /\ \E h \in Handles :
                /\ box[h] = NULL
                /\ box' = [box EXCEPT ![h] = outcome]
                /\ handle' = [handle EXCEPT ![u] = h]
           /\ reply' = "URL_OK"
           /\ UNCHANGED <<views, cstr, fault, tainted>>
  <2>1. PICK h \in Handles : /\ box[h] = NULL
                             /\ box' = [box EXCEPT ![h] = outcome]
                             /\ handle' = [handle EXCEPT ![u] = h]
    BY <1>2
  <2>2. \A o \in Urls : handle[o] # h
    BY <2>1 DEF UseInv, Discipline, HandlesLive
  <2>3. Owned' = [Owned EXCEPT ![u] = outcome]
    BY <2>1, <2>2 DEF Owned, UseInv, Discipline, TypeOK
  <2> QED
    BY <1>2, <2>3 DEF Contract!Construct
<1> QED
  BY <1>1, <1>2 DEF Construct

(* The one mistake of a text, or of the URL in it, is the one reported.    *)
LEMMA ReadRefines ==
  ASSUME UseInv, NEW u \in Urls, handle[u] = ABSENT, NEW text \in Texts0,
         NEW read, text \in Unicode => read[text] \in Values \cup ParseErrors,
         NEW outcome,
         outcome = IF InputError(text) # "URL_OK" THEN InputError(text)
                                                  ELSE Lift(read[text]),
         Construct(u, outcome)
  PROVE  Contract!Construct(u, Contract!Mistakes(text, read), read[text])
<1>1. CASE InputError(text) # "URL_OK"
  <2>1. Contract!Mistakes(text, read) = {outcome}
    BY <1>1, TextChecked DEF Contract!Mistakes
  <2>2. outcome \notin Values
    BY <1>1, FfiAssumption DEF InputError, ErrorCodes
  <2> QED
    BY <2>1, <2>2, ConstructRefines
<1>2. CASE InputError(text) = "URL_OK" /\ read[text] \in Values
  <2>1. Contract!Mistakes(text, read) = {} /\ outcome = read[text]
    BY <1>2, TextChecked DEF Contract!Mistakes, Lift
  <2> QED
    BY <1>2, <2>1, ConstructRefines
<1>3. CASE InputError(text) = "URL_OK" /\ read[text] \notin Values
  <2>1. outcome = MapError(read[text])
    BY <1>3 DEF Lift
  <2>2. outcome \in Contract!Mistakes(text, read)
    BY <1>3, <2>1, TextChecked, SameCodes DEF Contract!Mistakes
  <2>3. outcome \in ErrorCodes
    BY <2>1 DEF MapError, ErrorCodes
  <2> QED
    BY <2>2, <2>3, FfiAssumption, ConstructRefines
<1> QED
  BY <1>1, <1>2, <1>3

LEMMA StopStutters ==
  ASSUME NEW f, Stop(f)
  PROVE  UNCHANGED <<Owned, reply>>
  BY DEF Stop, Owned

LEMMA ParseRefines ==
  ASSUME UseInv, NEW u \in Urls, NEW arg \in Args, Parse(u, arg)
  PROVE  Contract!Parse(u, arg.cstr)
<1>1. arg.cstr \in Texts0
  BY UrlAssumption
<1>2. handle[u] = ABSENT /\ Owned[u] = ABSENT
  BY OwnedValues DEF Parse
<1>3. arg.cstr \in Unicode => Parsed[arg.cstr] \in Values \cup ParseErrors
  BY FfiAssumption
<1>4. Contract!Construct(u, Contract!Mistakes(arg.cstr, Parsed), Parsed[arg.cstr])
  <2>1. PICK outcome : outcome = NewOutcome(arg.cstr)
    OBVIOUS
  <2>2. Construct(u, outcome)
    BY <2>1 DEF Parse
  <2> QED
    BY <1>1, <1>2, <1>3, <2>1, <2>2, ReadRefines DEF NewOutcome
<1> QED
  BY <1>2, <1>4 DEF Contract!Parse

(* Of several mistakes lib.rs reports one: the text's, else that of the    *)
(* first element at fault, else the URL's.                                 *)
LEMMA ParseWithParamsRefines ==
  ASSUME UseInv, NEW u \in Urls, NEW arg \in Args, NEW params \in ParamLists,
         params # NULL, ParseWithParams(u, arg, params)
  PROVE  Contract!ParseWithParams(u, arg.cstr, params)
<1> DEFINE text     == arg.cstr
           outcome  == NewWithParamsOutcome(text, params)
           mistakes == Contract!Mistakes(text, Parsed) \cup Contract!ParamMistakes(params)
<1>1. text \in Texts0 /\ params \in Seq(ParamKinds)
  BY UrlAssumption, FfiAssumption
<1>2. handle[u] = ABSENT /\ Owned[u] = ABSENT
  BY OwnedValues DEF ParseWithParams
<1>3. outcome \notin Values
        => outcome \in mistakes
  <2>1. CASE InputError(text) # "URL_OK"
    <3>1. outcome = InputError(text)
      BY <1>1, <2>1 DEF NewWithParamsOutcome, InputError, Texts0
    <3> QED
      BY <1>1, <2>1, <3>1, TextChecked DEF Contract!Mistakes
  <2>2. CASE InputError(text) = "URL_OK" /\ Bad(params) # {}
    <3>1. FirstBad(params) \in { j \in DOMAIN params : params[j] # "pair" }
      BY <1>1, <2>2, FirstBadIsBad DEF Bad
    <3>2. outcome = ParamError(params[FirstBad(params)])
      BY <1>1, <2>2, TextChecked, FfiAssumption DEF NewWithParamsOutcome
    <3> QED
      BY <3>1, <3>2, SameCodes DEF Contract!ParamMistakes
  <2>3. CASE InputError(text) = "URL_OK" /\ Bad(params) = {} /\ Parsed[text] \notin Values
    <3>1. outcome = MapError(Parsed[text])
      BY <1>1, <2>3, TextChecked, FfiAssumption DEF NewWithParamsOutcome
    <3> QED
      BY <1>1, <2>3, <3>1, TextChecked, SameCodes DEF Contract!Mistakes
  <2>4. CASE InputError(text) = "URL_OK" /\ Bad(params) = {} /\ Parsed[text] \in Values
    <3>1. outcome = WithQuery[Parsed[text]]
      BY <1>1, <2>4, TextChecked, FfiAssumption DEF NewWithParamsOutcome
    <3> QED
      BY <2>4, <3>1, FfiAssumption
  <2> QED
    BY <2>1, <2>2, <2>3, <2>4
<1>4. outcome \in Values
        => mistakes = {} /\ WithQuery[Parsed[text]] = outcome
  <2> SUFFICES ASSUME outcome \in Values
               PROVE  mistakes = {} /\ WithQuery[Parsed[text]] = outcome
    OBVIOUS
  <2>1. InputError(text) = "URL_OK" /\ text \in Unicode
    <3>1. CASE InputError(text) # "URL_OK"
      <4>1. outcome = InputError(text)
        BY <1>1, <3>1 DEF NewWithParamsOutcome, InputError, Texts0
      <4> QED
        BY <3>1, <4>1, FfiAssumption DEF InputError, ErrorCodes
    <3> QED
      BY <1>1, <3>1, TextChecked
  <2>2. Bad(params) = {}
    <3>1. CASE Bad(params) # {}
      <4>1. outcome = ParamError(params[FirstBad(params)])
        BY <2>1, <3>1, FfiAssumption DEF NewWithParamsOutcome
      <4>2. params[FirstBad(params)] \in ParamKinds \ {"pair"}
        BY <1>1, <3>1, FirstBadIsBad DEF Bad
      <4>3. outcome \in ErrorCodes
        BY <4>1, <4>2 DEF ParamError, ParamKinds, ErrorCodes
      <4> QED
        BY <4>3, FfiAssumption
    <3> QED
      BY <3>1
  <2>3. outcome = IF Parsed[text] \in Values THEN WithQuery[Parsed[text]]
                                             ELSE MapError(Parsed[text])
    BY <2>1, <2>2, FfiAssumption DEF NewWithParamsOutcome
  <2>4. MapError(Parsed[text]) \notin Values
    BY FfiAssumption DEF MapError, ErrorCodes
  <2>5. Parsed[text] \in Values /\ outcome = WithQuery[Parsed[text]]
    BY <2>3, <2>4
  <2>6. Contract!Mistakes(text, Parsed) = {}
    BY <1>1, <2>1, <2>5, TextChecked DEF Contract!Mistakes
  <2>7. Contract!ParamMistakes(params) = {}
    BY <1>1, <2>2 DEF Bad, Contract!ParamMistakes
  <2> QED
    BY <2>5, <2>6, <2>7
<1>5. Construct(u, outcome)
  BY DEF ParseWithParams
<1>6. Contract!Construct(u, mistakes, WithQuery[Parsed[text]])
  <2> HIDE DEF text, outcome, mistakes
  <2> QED
    BY <1>2, <1>3, <1>4, <1>5, ConstructRefines
<1> QED
  BY <1>2, <1>6 DEF Contract!ParseWithParams

(* lib.rs:92, before anything else is looked at. *)
LEMMA NullParamsAreRefused ==
  ASSUME NEW u \in Urls, NEW arg \in Args, NULL \in ParamLists,
         ParseWithParams(u, arg, NULL)
  PROVE  NullParamsRefused
<1>1. NewWithParamsOutcome(arg.cstr, NULL) = "URL_EMPTY" /\ "URL_EMPTY" \notin Values
  BY FfiAssumption DEF NewWithParamsOutcome, ErrorCodes
<1>2. reply' = "URL_EMPTY" /\ UNCHANGED <<handle, box>>
  BY <1>1 DEF ParseWithParams, Construct
<1> QED
  BY <1>2 DEF NullParamsRefused, Owned

LEMMA JoinRefines ==
  ASSUME UseInv, NEW u \in Urls, NEW base \in Urls, NEW arg \in Args,
         Join(u, base, arg)
  PROVE  \/ Contract!Join(u, base, arg.cstr)
         \/ fault' # "none" /\ UNCHANGED <<Owned, reply>>
<1> DEFINE text == arg.cstr
           read == Joined[Owned[base]]
<1>1. text \in Texts0
  BY UrlAssumption
<1>2. /\ handle[u] = ABSENT /\ Owned[u] = ABSENT
      /\ Owned[base] # ABSENT /\ ~Dangling(base)
  BY OwnedValues DEF Join, Constructed
<1>3. CASE Stop("null_deref")
  BY <1>3, StopStutters DEF Stop
<1>4. CASE InputError(text) # "URL_OK" /\ Construct(u, InputError(text))
  <2>1. Contract!TextMistakes(text) # {}
        /\ Contract!Mistakes(text, read) = {InputError(text)}
    BY <1>1, <1>4, TextChecked DEF Contract!Mistakes
  <2>2. InputError(text) \notin Values
    BY <1>4, FfiAssumption DEF InputError, ErrorCodes
  <2>3. Contract!Construct(u, Contract!Mistakes(text, read), read[text])
    BY <1>2, <1>4, <2>1, <2>2, ConstructRefines
  <2> QED
    BY <1>2, <2>1, <2>3 DEF Contract!Join
<1>5. CASE Live(base) /\ InputError(text) = "URL_OK"
           /\ Construct(u, JoinOutcome(box[handle[base]], text))
  <2>1. Owned[base] = box[handle[base]] /\ Owned[base] # NULL /\ Owned[base] \in Values
    BY <1>5, OwnedValues, FfiAssumption
  <2>2. text \in Unicode => read[text] \in Values \cup ParseErrors
    BY <2>1, FfiAssumption
  <2>3. Contract!Construct(u, Contract!Mistakes(text, read), read[text])
    <3>1. PICK outcome : outcome = JoinOutcome(Owned[base], text)
      OBVIOUS
    <3>2. Construct(u, outcome)
      BY <1>5, <2>1, <3>1
    <3> QED
      BY <1>1, <1>2, <2>2, <3>1, <3>2, ReadRefines DEF JoinOutcome
  <2> QED
    BY <1>2, <2>1, <2>3 DEF Contract!Join
<1> QED
  BY <1>2, <1>3, <1>4, <1>5 DEF Join

LEMMA MoveConstructRefines ==
  ASSUME UseInv, NEW d \in Urls, NEW s \in Urls, MoveConstruct(d, s)
  PROVE  Contract!MoveConstruct(d, s)
<1>1. Owned[d] = ABSENT /\ Owned[s] # ABSENT
  BY OwnedValues DEF MoveConstruct, Constructed
<1>2. Owned' = [Owned EXCEPT ![d] = Owned[s], ![s] = NULL]
  BY UrlAssumption DEF MoveConstruct, Constructed, Owned, UseInv, Discipline, TypeOK
<1> QED
  BY <1>1, <1>2 DEF Contract!MoveConstruct, MoveConstruct, Owned

(* The freed Box was nobody else's. *)
LEMMA DestroyRefines ==
  ASSUME UseInv, NEW u \in Urls, Destroy(u)
  PROVE  Contract!Destroy(u)
<1>1. Owned[u] # ABSENT /\ ~Dangling(u)
  BY OwnedValues DEF Destroy, Constructed
<1>2. \A o \in Urls \ {u} : handle[u] \in Handles => handle[o] # handle[u]
  BY DEF UseInv, Discipline, ExclusiveOwner
<1>3. /\ box' = [h \in Handles |-> IF h = handle[u] THEN NULL ELSE box[h]]
      /\ handle' = [handle EXCEPT ![u] = ABSENT]
  BY <1>1 DEF Free, Destroy
<1>4. Owned' = [Owned EXCEPT ![u] = ABSENT]
  <2>1. TypeOK /\ ABSENT \notin Handles
    BY UrlAssumption DEF UseInv, Discipline
  <2>2. ASSUME NEW o \in Urls \ {u} PROVE Owned'[o] = Owned[o]
    BY <1>2, <1>3, <2>1, <2>2 DEF Owned, TypeOK
  <2>3. Owned'[u] = ABSENT
    BY <1>3, <2>1 DEF Owned, TypeOK
  <2> QED
    BY <2>2, <2>3 DEF Owned
<1> QED
  BY <1>1, <1>4 DEF Contract!Destroy, Destroy, Owned

(* An accessor of an empty object answers as one of a null handle. *)
LEMMA AccessorRefines ==
  ASSUME UseInv, NEW u \in Urls, ReadText(u) \/ Host(u)
  PROVE  \/ Contract!ReadText(u) \/ Contract!Host(u)
         \/ UNCHANGED <<Owned, reply>>
<1>1. Owned[u] # ABSENT /\ ~Dangling(u)
  BY OwnedValues DEF ReadText, Host, Constructed
<1>2. CASE AccessorGuard(u)
  <2>1. CASE Stop("assertion")
    BY <2>1, StopStutters
  <2>2. CASE /\ handle[u] = NULL
             /\ reply' = NULL
             /\ UNCHANGED <<handle, box, views, cstr, fault, tainted>>
    <3>1. Owned[u] = NULL /\ Owned' = Owned
      BY <2>2, OwnedValues DEF Owned
    <3> QED
      BY <1>1, <2>2, <3>1 DEF Contract!ReadText, Owned
  <2> QED
    BY <1>1, <1>2, <2>1, <2>2 DEF AccessorGuard
<1>3. CASE Live(u) /\ UNCHANGED <<handle, box>> /\ reply' = box[handle[u]]
  <2>1. Owned[u] = box[handle[u]] /\ Owned' = Owned
    BY <1>3, OwnedValues DEF Owned
  <2> QED
    BY <1>1, <1>3, <2>1 DEF Contract!ReadText, Owned
<1>4. CASE /\ Live(u) /\ UNCHANGED <<handle, box>>
           /\ reply' = IF HostKind[box[handle[u]]] = "none"
                       THEN NULL ELSE HostKind[box[handle[u]]]
  <2>1. Owned[u] = box[handle[u]] /\ Owned[u] # NULL /\ Owned' = Owned
    BY <1>4, OwnedValues, FfiAssumption DEF Owned
  <2> QED
    BY <1>1, <1>4, <2>1 DEF Contract!Host, Owned
<1> QED
  BY <1>2, <1>3, <1>4 DEF Borrow, View, ReadText, Host

LEMMA FallibleCallsAnswer ==
  ASSUME UseInv
  PROVE  AnswersItsArguments
<1> SUFFICES ASSUME NEW u \in Urls, NEW arg \in Args
             PROVE  /\ Parse(u, arg) => Contract!Parse(u, arg.cstr)
                    /\ \A params \in ParamLists :
                         ParseWithParams(u, arg, params)
                           => IF params = NULL THEN NullParamsRefused
                              ELSE Contract!ParseWithParams(u, arg.cstr, params)
                    /\ \A base \in Urls :
                         Join(u, base, arg) /\ fault' = "none"
                           => Contract!Join(u, base, arg.cstr)
  BY DEF AnswersItsArguments
<1>1. Parse(u, arg) => Contract!Parse(u, arg.cstr)
  BY ParseRefines
<1>2. ASSUME NEW params \in ParamLists, ParseWithParams(u, arg, params)
      PROVE  IF params = NULL THEN NullParamsRefused
             ELSE Contract!ParseWithParams(u, arg.cstr, params)
  <2>1. CASE params = NULL
    BY <1>2, <2>1, NullParamsAreRefused
  <2>2. CASE params # NULL
    BY <1>2, <2>2, ParseWithParamsRefines
  <2> QED
    BY <2>1, <2>2
<1>3. ASSUME NEW base \in Urls, Join(u, base, arg), fault' = "none"
      PROVE  Contract!Join(u, base, arg.cstr)
  BY <1>3, JoinRefines
<1> QED
  BY <1>1, <1>2, <1>3

(* As long as no Url is assigned to another, Url.cc and lib.rs together    *)
(* implement what their headers document but for one call: a NULL          *)
(* parameter array, with whatever text, is refused as empty input.         *)
THEOREM UseKeepsContractSaveNullParams == UseSpec => KeepsContractSaveNullParams
<1>1. Init => Contract!Init
  BY UrlAssumption DEF Init, Contract!Init, Owned
<1>2. UseInv /\ [Use]_vars
        => [ /\ AnswersItsArguments
             /\ [Contract!Next]_<<Owned, reply>> \/ NullParamsRefused ]_vars
  <2> SUFFICES ASSUME UseInv, [Use]_vars
               PROVE  Contract!Next \/ NullParamsRefused \/ UNCHANGED <<Owned, reply>>
    BY FallibleCallsAnswer
  <2>1. ASSUME NEW u \in Urls, NEW arg \in Args, Parse(u, arg)
        PROVE  Contract!Next
    BY <2>1, ParseRefines, UrlAssumption DEF Contract!Next, Texts0
  <2>2. ASSUME NEW u \in Urls, NEW arg \in Args, NEW params \in ParamLists,
               ParseWithParams(u, arg, params)
        PROVE  Contract!Next \/ NullParamsRefused
    BY <2>2, ParseWithParamsRefines, NullParamsAreRefused, UrlAssumption
       DEF Contract!Next, Texts0
  <2>3. ASSUME NEW u \in Urls, NEW arg \in Args, NEW base \in Urls,
               Join(u, base, arg)
        PROVE  Contract!Next \/ UNCHANGED <<Owned, reply>>
    BY <2>3, JoinRefines, UrlAssumption DEF Contract!Next, Texts0
  <2>4. ASSUME NEW u \in Urls, NEW s \in Urls, MoveConstruct(u, s)
        PROVE  Contract!Next
    BY <2>4, MoveConstructRefines DEF Contract!Next
  <2>5. ASSUME NEW u \in Urls, Destroy(u)
        PROVE  Contract!Next
    BY <2>5, DestroyRefines DEF Contract!Next
  <2>6. ASSUME NEW u \in Urls, ReadText(u) \/ Host(u)
        PROVE  Contract!Next \/ UNCHANGED <<Owned, reply>>
    BY <2>6, AccessorRefines DEF Contract!Next
  <2>7. CASE ErrorToString \/ UNCHANGED vars
    BY <2>7 DEF ErrorToString, vars, Owned
  <2> QED
    BY <2>1, <2>2, <2>3, <2>4, <2>5, <2>6, <2>7 DEF Use
<1> QED
  BY <1>1, <1>2, UseInvariant, PTL
     DEF UseSpec, KeepsContractSaveNullParams
=============================================================================
