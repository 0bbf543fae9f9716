----------------------------- MODULE UrlClient -----------------------------
(***************************************************************************)
(* A C program over include/violet-c/net/url.h, like the one in            *)
(* examples/url/capi/main.c: it holds handles in variables, gives calls    *)
(* the address of its `error' or NULL, and frees by hand what it was       *)
(* given.  It keeps to the header: it takes a handle for good when the     *)
(* call says so, uses it until it frees it, and frees everything before it *)
(* exits.  What the library does with its memory is the code's.            *)
(***************************************************************************)
EXTENDS UrlFfi

CONSTANTS
  Pointers,  \* the violet_net_url_t* variables of the program
  Handles,   \* heap addresses of Box<violet_net_url_t>
  CStrings,  \* heap addresses of CString::into_raw
  HostKind,  \* Url::host of a value
  FRAME      \* the stack frame of a call that has returned

VARIABLES
  ptr,      \* variable -> the address in it, or NULL
  owned,    \* the variables that the program takes for a URL of its own
  error,    \* its violet_net_url_error_t
  box,      \* address -> the url::Url in its Box, NULL when not allocated
  cstr,     \* address -> "free", or what its C string was allocated for
  views,    \* the string views in its hands: [of, mem]
  fault,    \* "none", or how the program stopped
  closing   \* it is on its way out and only frees

vars == <<ptr, owned, error, box, cstr, views, fault, closing>>

heap == <<box, cstr>>

ASSUME ClientAssumption ==
  /\ HostKind \in [Values -> {"domain", "ipv4", "ipv6", "none"}]
  /\ NULL \notin Handles
  /\ Handles \cap (CStrings \cup {FRAME}) = {}
  /\ FRAME \notin CStrings

(* violet_net_url_error_t *)
Codes == ErrorCodes \cup {"URL_OK"}
-----------------------------------------------------------------------------

(* `error' has a value before the first call. *)
Init ==
  /\ ptr = [p \in Pointers |-> NULL]
  /\ owned = {}
  /\ error = "URL_UNKNOWN"
  /\ box = [h \in Handles |-> NULL]
  /\ cstr = [c \in CStrings |-> "free"]
  /\ views = {}
  /\ fault = "none"
  /\ closing = FALSE

Working == fault = "none" /\ ~closing

Stop(f) ==
  /\ fault' = f
  /\ UNCHANGED <<ptr, owned, error, box, cstr, views, closing>>

(* Mutated MapErrorPtr: only a failure is written, as the header has it.   *)
MapErrorPtrOnFailure(asked, code) ==
  error' = IF asked /\ code # "URL_OK" THEN code ELSE error

(* Mutated MapErrorPtr: only the end of a call that succeeds is reached.   *)
MapErrorPtrOnSuccess(asked, code) ==
  error' = IF asked /\ code = "URL_OK" THEN code ELSE error

(* map_error_ptr!: nothing is written through a null pointer. *)
MapErrorPtr(asked, code) ==
  error' = IF asked THEN code ELSE error

(* `if (error != URL_OK)' where `error' was asked for, and otherwise the   *)
(* handle, tell whether the call gave p a URL.                             *)
Take(p, asked, result) ==
  /\ ptr' = [ptr EXCEPT ![p] = result]
  /\ owned' = IF IF asked THEN error' = "URL_OK" ELSE result # NULL
              THEN owned \cup {p} ELSE owned

(* Box::into_raw(Box::new(..)) or null_mut(), and the caller's check. *)
Return(p, asked, outcome) ==
  /\ \/ /\ outcome \in Values
        /\ MapErrorPtr(asked, "URL_OK")
        /\ \E h \in Handles :
             /\ box[h] = NULL
             /\ box' = [box EXCEPT ![h] = outcome]
             /\ Take(p, asked, h)
     \/ /\ outcome \notin Values
        /\ MapErrorPtr(asked, outcome)
        /\ Take(p, asked, NULL)
        /\ UNCHANGED box
  /\ UNCHANGED <<cstr, views, fault, closing>>

New(p, text, asked) ==
  /\ Working /\ p \notin owned
  /\ Return(p, asked, NewOutcome(text))

NewWithParams(p, text, params, asked) ==
  /\ Working /\ p \notin owned
  /\ Return(p, asked, NewWithParamsOutcome(text, params))

(* Mutated Join: the new URL takes the Box of its base. *)
JoinConsuming(p, base, text, asked) ==
  /\ Working /\ p \notin owned /\ base \in owned /\ ptr[base] # NULL
  /\ MapErrorPtr(asked, "URL_OK")
  /\ Take(p, asked, ptr[base])
  /\ \E v \in Values : box' = [box EXCEPT ![ptr[base]] = v]
  /\ UNCHANGED <<cstr, views, fault, closing>>

(* violet_net_url_join: the base is dereferenced once the input is valid. *)
Join(p, base, text, asked) ==
  /\ Working /\ p \notin owned /\ base \in owned
  /\ \/ /\ InputError(text) # "URL_OK"
        /\ Return(p, asked, InputError(text))
     \/ /\ InputError(text) = "URL_OK"
        /\ \/ ptr[base] = NULL /\ Stop("null_deref")
           \/ ptr[base] # NULL /\ box[ptr[base]] = NULL /\ Stop("use_after_free")
           \/ /\ ptr[base] # NULL /\ box[ptr[base]] # NULL
              /\ Return(p, asked, JoinOutcome(box[ptr[base]], text))

(* from_str and some: a view owns nothing. *)
See(p, memory) == views' = views \cup {[of |-> p, mem |-> memory]}

(* Mutated Host: the C string of an IPv4 host is dropped with the call.    *)
HostDropping(p) ==
  /\ Working /\ p \in owned /\ ptr[p] # NULL
  /\ HostKind[box[ptr[p]]] = "ipv4"
  /\ \E c \in CStrings : cstr[c] = "free" /\ See(p, c)
  /\ UNCHANGED <<ptr, owned, error, box, cstr, fault, closing>>

(* violet_net_url_host: the C string of an IPv4 host is given away, an     *)
(* IPv6 host is in an array of the call.                                   *)
Host(p) ==
  /\ Working /\ p \in owned /\ ptr[p] # NULL
  /\ \/ /\ box[ptr[p]] = NULL
        /\ Stop("use_after_free")
     \/ /\ box[ptr[p]] # NULL
        /\ LET kind == HostKind[box[ptr[p]]] IN
           \/ kind = "domain" /\ See(p, ptr[p]) /\ UNCHANGED cstr
           \/ kind = "ipv6" /\ See(p, FRAME) /\ UNCHANGED cstr
           \/ /\ kind = "ipv4"
              /\ \E c \in CStrings :
                   /\ cstr[c] = "free"
                   /\ cstr' = [cstr EXCEPT ![c] = "host"]
                   /\ See(p, c)
        /\ UNCHANGED <<ptr, owned, error, box, fault, closing>>

(* The other accessors of print_url: views into the Box, or no views. *)
Read(p) ==
  /\ Working /\ p \in owned /\ ptr[p] # NULL
  /\ \/ box[ptr[p]] = NULL /\ Stop("use_after_free")
     \/ /\ box[ptr[p]] # NULL /\ See(p, ptr[p])
        /\ UNCHANGED <<ptr, owned, error, box, cstr, fault, closing>>

(* violet_net_url_strerror: a C string that the caller has to free. *)
StrError ==
  /\ Working
  /\ \E c \in CStrings :
       /\ cstr[c] = "free"
       /\ cstr' = [cstr EXCEPT ![c] = "error"]
  /\ UNCHANGED <<ptr, owned, error, box, views, fault, closing>>

(* Mutated Free: the Box is forgotten, not dropped. *)
FreeForgetting(p) ==
  /\ fault = "none" /\ p \in owned
  /\ owned' = owned \ {p}
  /\ ptr' = [ptr EXCEPT ![p] = NULL]
  /\ views' = { v \in views : v.of # p }
  /\ UNCHANGED <<error, box, cstr, fault, closing>>

(* violet_net_url_free: nothing for NULL, else drop(Box::from_raw(..)). *)
Free(p) ==
  /\ fault = "none" /\ p \in owned
  /\ \/ /\ ptr[p] # NULL /\ box[ptr[p]] = NULL
        /\ Stop("double_free")
     \/ /\ ptr[p] # NULL => box[ptr[p]] # NULL
        /\ box' = [h \in Handles |-> IF h = ptr[p] THEN NULL ELSE box[h]]
        /\ owned' = owned \ {p}
        /\ ptr' = [ptr EXCEPT ![p] = NULL]
        /\ views' = { v \in views : v.of # p }
        /\ UNCHANGED <<error, cstr, fault, closing>>

(* free(3) of an error text. *)
FreeText(c) ==
  /\ fault = "none" /\ cstr[c] = "error"
  /\ cstr' = [cstr EXCEPT ![c] = "free"]
  /\ UNCHANGED <<ptr, owned, error, box, views, fault, closing>>

Close ==
  /\ Working
  /\ closing' = TRUE
  /\ UNCHANGED <<ptr, owned, error, box, cstr, views, fault>>

Next ==
  \/ \E p \in Pointers, asked \in BOOLEAN, text \in Texts \cup {NULL} :
       \/ New(p, text, asked)
       \/ \E params \in ParamLists : NewWithParams(p, text, params, asked)
       \/ \E base \in Pointers : Join(p, base, text, asked)
  \/ \E p \in Pointers : Read(p) \/ Host(p) \/ Free(p)
  \/ StrError
  \/ \E c \in CStrings : FreeText(c)
  \/ Close

Spec == Init /\ [][Next]_vars

(* A program that has begun to exit frees what it holds. *)
CleanUp ==
  /\ \A p \in Pointers : WF_vars(Free(p))
  /\ \A c \in CStrings : WF_vars(FreeText(c))

FairSpec == Spec /\ CleanUp
-----------------------------------------------------------------------------
(* Properties *)

(* Every variable keeps its type. *)
TypeOK ==
  /\ ptr \in [Pointers -> Handles \cup {NULL}]
  /\ owned \subseteq Pointers
  /\ error \in Codes
  /\ box \in [Handles -> Values \cup {NULL}]
  /\ cstr \in [CStrings -> {"free", "host", "error"}]
  /\ views \subseteq [of : Pointers, mem : Handles \cup CStrings \cup {FRAME}]
  /\ fault \in {"none", "null_deref", "use_after_free", "double_free"}
  /\ closing \in BOOLEAN

(* A program that keeps to the header runs into no undefined behaviour by  *)
(* way of its handles (what it may read through a view is ViewsLive):      *)
(* whichever of the two signs of success it goes by, it joins, reads and   *)
(* frees only handles that are there.                                      *)
NeverFaults == fault = "none"

(* An allocated Box is in the hands of one variable that the program knows *)
(* to own it: no code that was left over from an earlier call makes it     *)
(* forget one, and no two calls give out the same address.                 *)
EachBoxHeld ==
  \A h \in Handles :
    box[h] # NULL => \E p \in owned : \A q \in Pointers : ptr[q] = h <=> q = p

(* A view of a URL that was not freed points to memory that is there, up   *)
(* to the views of IPv6 hosts.                                             *)
ViewsLive ==
  \A v \in views :
    /\ v.of \in owned
    /\ v.mem \in Handles => v.mem = ptr[v.of] /\ box[v.mem] # NULL
    /\ v.mem \in CStrings => cstr[v.mem] = "host"

(* A Box is dropped by the variable that owns it and by nothing else: not  *)
(* by a join that starts from it, nor by the other URLs made from it.      *)
OnlyFreeDrops ==
  [][ \A h \in Handles :
        box[h] # NULL /\ box'[h] # box[h] =>
          \E p \in owned \ owned' : ptr[p] = h /\ box'[h] = NULL ]_vars

(* Whoever frees all URLs and all error texts that he was given ends with  *)
(* no Box and no error text; only the strings of IPv4 hosts stay, which    *)
(* nobody is given to free.                                                *)
CleansUp ==
  closing ~> [](/\ \A h \in Handles : box[h] = NULL
                /\ \A c \in CStrings : cstr[c] # "error")
=============================================================================
