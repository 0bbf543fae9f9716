-------------------------------- MODULE Url --------------------------------
(***************************************************************************)
(* violet::net::Url (src/Url.cc) over the Rust heap behind its FFI         *)
(* (rust/url/lib.rs): which object holds which raw handle, which Box is    *)
(* allocated, which string views and C strings the client still holds.     *)
(*                                                                         *)
(* One action per member function.  Undefined behaviour stops the model    *)
(* with a `fault'.  An address is reused as soon as its Box is freed.      *)
(***************************************************************************)
EXTENDS UrlFfi

CONSTANTS
  Urls,        \* the Url objects of a program
  Handles,     \* heap addresses of Box<violet_net_url_t>
  CStrings,    \* heap addresses of CString::into_raw
  Args,        \* Str arguments: view is the text the Str delimits, cstr the
               \* text the callee finds by running to the next NUL
  HostKind,    \* Url::host of a value
  DebugBuild,  \* VIOLET_DEBUG_ASSERT is compiled in
  ABSENT,      \* the object is not constructed
  FRAME        \* the stack frame of a call that has returned

VARIABLES
  handle,   \* object -> n_handle, or ABSENT
  box,      \* address -> the url::Url in its Box, NULL when not allocated
  views,    \* the string views in the client's hands: [url, mem]
  cstr,     \* address -> "free", or what its C string was allocated for
  reply,    \* what the last call returned
  fault,    \* "none", or how the program stopped
  tainted   \* history: the addresses that a move assignment duplicated
            \* into a second object or overwrote

vars == <<handle, box, views, cstr, reply, fault, tainted>>

Texts0 == Texts \cup {NULL}

ASSUME UrlAssumption ==
  /\ Args \subseteq [view : Texts0, cstr : Texts0]
  /\ HostKind \in [Values -> {"domain", "ipv4", "ipv6", "none"}]
  /\ DebugBuild \in BOOLEAN
  /\ ABSENT # NULL /\ ABSENT \notin Values
  /\ Handles \cap {ABSENT, NULL, FRAME} = {}
  /\ CStrings \cap (Handles \cup {FRAME}) = {}
-----------------------------------------------------------------------------

Init ==
  /\ handle = [u \in Urls |-> ABSENT]
  /\ box = [h \in Handles |-> NULL]
  /\ views = {}
  /\ cstr = [c \in CStrings |-> "free"]
  /\ reply = NULL
  /\ fault = "none"
  /\ tainted = {}

Constructed(u) == handle[u] # ABSENT
Live(u)        == handle[u] \in Handles /\ box[handle[u]] # NULL
Dangling(u)    == handle[u] \in Handles /\ box[handle[u]] = NULL

(* Undefined behaviour, or an assertion: nothing is defined from here on. *)
Stop(f) ==
  /\ fault' = f
  /\ UNCHANGED <<handle, box, views, cstr, reply, tainted>>

(* The tail of Parse, ParseWithParams and Join: a null handle and a code,  *)
(* or a fresh Box whose address becomes the n_handle of u.                 *)
Construct(u, outcome) ==
  /\ \/ /\ outcome \in Values
        /\ \E h \in Handles :
             /\ box[h] = NULL
             /\ box' = [box EXCEPT ![h] = outcome]
             /\ handle' = [handle EXCEPT ![u] = h]
        /\ reply' = "URL_OK"
     \/ /\ outcome \notin Values
        /\ reply' = outcome
        /\ UNCHANGED <<handle, box>>
  /\ UNCHANGED <<views, cstr, fault, tainted>>

Parse(u, arg) ==
  /\ handle[u] = ABSENT
  /\ Construct(u, NewOutcome(arg.cstr))

ParseWithParams(u, arg, params) ==
  /\ handle[u] = ABSENT
  /\ Construct(u, NewWithParamsOutcome(arg.cstr, params))

(* Mutated Join: Box::from_raw in place of a borrow, the base is consumed. *)
JoinConsuming(u, base, arg) ==
  /\ handle[u] = ABSENT /\ Live(base)
  /\ InputError(arg.cstr) = "URL_OK"
  /\ box' = [box EXCEPT ![handle[base]] = NULL]
  /\ UNCHANGED <<handle, views, cstr, reply, fault, tainted>>

(* Join has no assertion and its FFI no null check: the base is            *)
(* dereferenced once the input is known to be a valid string.              *)
Join(u, base, arg) ==
  /\ handle[u] = ABSENT /\ Constructed(base)
  /\ \/ /\ InputError(arg.cstr) # "URL_OK"
        /\ Construct(u, InputError(arg.cstr))
     \/ /\ InputError(arg.cstr) = "URL_OK"
        /\ \/ handle[base] = NULL /\ Stop("null_deref")
           \/ Dangling(base) /\ Stop("use_after_free")
           \/ Live(base) /\ Construct(u, JoinOutcome(box[handle[base]], arg.cstr))

(* Mutated MoveConstruct: `other' is not reset. *)
MoveConstructCopying(d, s) ==
  /\ handle[d] = ABSENT /\ Constructed(s)
  /\ handle' = [handle EXCEPT ![d] = handle[s]]
  /\ UNCHANGED <<box, views, cstr, reply, fault, tainted>>

(* std::exchange(other.n_handle, nullptr); views of s now belong to d. *)
MoveConstruct(d, s) ==
  /\ handle[d] = ABSENT /\ Constructed(s)
  /\ handle' = [handle EXCEPT ![d] = handle[s], ![s] = NULL]
  /\ views' = { IF v.url = s THEN [v EXCEPT !.url = d] ELSE v : v \in views }
  /\ UNCHANGED <<box, cstr, reply, fault, tainted>>

(* `= default' copies the raw pointer: s keeps it, and the Box of d is not *)
(* freed.  The client believes the documentation: views of d are gone and  *)
(* those of s belong to d.  Assigning an object to itself changes nothing. *)
MoveAssign(d, s) ==
  /\ d # s /\ Constructed(d) /\ Constructed(s)
  /\ handle' = [handle EXCEPT ![d] = handle[s]]
  /\ views' = { IF v.url = s THEN [v EXCEPT !.url = d] ELSE v :
                  v \in { w \in views : w.url # d } }
  /\ tainted' = tainted \cup (Handles \cap {handle[d], handle[s]})
  /\ UNCHANGED <<box, cstr, reply, fault>>

(* Mutated Destroy: ~Url does not call violet_net_url_free. *)
DestroyObjectOnly(u) ==
  /\ Constructed(u)
  /\ handle' = [handle EXCEPT ![u] = ABSENT]
  /\ views' = { v \in views : v.url # u }
  /\ UNCHANGED <<box, cstr, reply, fault, tainted>>

(* violet_net_url_free drops the Box at an address, if there is one. *)
Free(address) ==
  box' = [h \in Handles |-> IF h = address THEN NULL ELSE box[h]]

(* ~Url *)
Destroy(u) ==
  /\ Constructed(u)
  /\ \/ /\ ~Dangling(u)
        /\ Free(handle[u])
        /\ handle' = [handle EXCEPT ![u] = ABSENT]
        /\ views' = { v \in views : v.url # u }
        /\ UNCHANGED <<cstr, reply, fault, tainted>>
     \/ Dangling(u) /\ Stop("double_free")

(* The assertion and the handle_nullptr! guard that open every accessor. *)
AccessorGuard(u) ==
  \/ /\ handle[u] = NULL /\ DebugBuild
     /\ Stop("assertion")
  \/ /\ handle[u] = NULL /\ ~DebugBuild
     /\ reply' = NULL
     /\ UNCHANGED <<handle, box, views, cstr, fault, tainted>>
  \/ Dangling(u) /\ Stop("use_after_free")

(* from_str: a text as a view that owns nothing. *)
View(u, memory) == [url |-> u, mem |-> memory]

(* The functions violet_net_url_* behind the accessors: they answer from   *)
(* the value in the Box, and a text is a view into the Box's buffer.       *)
(* Flags, ports and none are no views.                                     *)
Borrow(u) ==
  /\ reply' = box[handle[u]]
  /\ views' \in { views, views \cup {View(u, handle[u])} }

(* Every accessor but Host. *)
ReadText(u) ==
  /\ Constructed(u)
  /\ \/ AccessorGuard(u)
     \/ /\ Live(u) /\ Borrow(u)
        /\ UNCHANGED <<handle, box, cstr, fault, tainted>>

(* An IPv4 host is formatted into a C string given away by into_raw. *)
HostString(u) ==
  \E c \in CStrings :
    /\ cstr[c] = "free"
    /\ cstr' = [cstr EXCEPT ![c] = "host"]
    /\ views' = views \cup {View(u, c)}

(* violet_net_url_host: a domain is borrowed, an IPv6 host is formatted    *)
(* into a local array whose address outlives the call.                     *)
Host(u) ==
  /\ Constructed(u)
  /\ \/ AccessorGuard(u)
     \/ /\ Live(u)
        /\ LET kind == HostKind[box[handle[u]]] IN
           /\ reply' = IF kind = "none" THEN NULL ELSE kind
           /\ \/ /\ kind = "none"
                 /\ UNCHANGED <<views, cstr>>
              \/ /\ kind = "domain"
                 /\ views' = views \cup {View(u, handle[u])}
                 /\ UNCHANGED cstr
              \/ kind = "ipv4" /\ HostString(u)
              \/ /\ kind = "ipv6"
                 /\ views' = views \cup {View(u, FRAME)}
                 /\ UNCHANGED cstr
        /\ UNCHANGED <<handle, box, fault, tainted>>

(* violet_net_url_strerror: a new C string, given away by into_raw. *)
StrError ==
  \E c \in CStrings :
    /\ cstr[c] = "free"
    /\ cstr' = [cstr EXCEPT ![c] = "error"]

(* UrlError::ToString copies the text of violet_net_url_strerror into its  *)
(* String and forgets the pointer.                                         *)
ErrorToString ==
  /\ reply \in ErrorCodes
  /\ StrError
  /\ UNCHANGED <<handle, box, views, reply, fault, tainted>>

(* Everything a program does with Urls short of assigning one to another. *)
Use ==
  /\ fault = "none"
  /\ \/ \E u \in Urls :
          \/ \E arg \in Args : Parse(u, arg)
          \/ \E arg \in Args, params \in ParamLists :
               ParseWithParams(u, arg, params)
          \/ \E base \in Urls, arg \in Args : Join(u, base, arg)
          \/ \E s \in Urls : MoveConstruct(u, s)
          \/ Destroy(u)
          \/ ReadText(u)
          \/ Host(u)
     \/ ErrorToString

Assign ==
  /\ fault = "none"
  /\ \E d, s \in Urls : MoveAssign(d, s)

Next == Use \/ Assign

Spec    == Init /\ [][Next]_vars
UseSpec == Init /\ [][Use]_vars
-----------------------------------------------------------------------------
(* Properties *)

Replies == ErrorCodes \cup Values \cup {"URL_OK", NULL, "domain", "ipv4", "ipv6"}

(* Every variable keeps its type. *)
TypeOK ==
  /\ handle \in [Urls -> Handles \cup {NULL, ABSENT}]
  /\ box \in [Handles -> Values \cup {NULL}]
  /\ views \subseteq [url : Urls, mem : Handles \cup CStrings \cup {FRAME}]
  /\ cstr \in [CStrings -> {"free", "host", "error"}]
  /\ reply \in Replies
  /\ fault \in {"none", "null_deref", "use_after_free", "double_free", "assertion"}
  /\ tainted \subseteq Handles

(* A handle that no move assignment touched is held by at most one object, *)
(* whatever is parsed, joined, moved and destroyed around it.              *)
ExclusiveOwner ==
  \A a, b \in Urls :
    a # b /\ handle[a] = handle[b] /\ handle[a] \in Handles
      => handle[a] \in tainted

(* Such a handle points to an allocated Box, although addresses are reused *)
(* as soon as they are freed.                                              *)
HandlesLive ==
  \A u \in Urls : handle[u] \in Handles \ tainted => box[handle[u]] # NULL

(* Such a Box is reachable from an object, whose destructor will free it. *)
NothingLost ==
  \A h \in Handles \ tainted :
    box[h] # NULL => \E u \in Urls : handle[u] = h

(* A borrowed view is good for as long as its object lives, through every  *)
(* move of that object: its buffer is the Box the object still owns.       *)
BorrowedViewsLive ==
  \A v \in views :
    v.mem \in Handles \ tainted
      => handle[v.url] = v.mem /\ box[v.mem] # NULL

(* The heap is only ever corrupted by way of a move assignment. *)
FaultsBlamed ==
  fault \in {"use_after_free", "double_free"} => tainted # {}

Discipline ==
  /\ TypeOK
  /\ ExclusiveOwner
  /\ HandlesLive
  /\ NothingLost
  /\ BorrowedViewsLive
  /\ FaultsBlamed

(* An allocated Box is immutable until it is freed, and it is freed by the *)
(* destructor of an object that holds it.                                  *)
OnlyOwnersFree ==
  [][\A h \in Handles :
       box[h] # NULL /\ box'[h] # box[h]
         => /\ box'[h] = NULL
            /\ \E u \in Urls : handle[u] = h /\ handle'[u] = ABSENT]_vars

(* The value an object owns, read through its handle. *)
Owned == [u \in Urls |-> IF handle[u] \in Handles THEN box[handle[u]]
                                                 ELSE handle[u]]

(* The contract of the headers, read through the handles. *)
Contract == INSTANCE UrlContract WITH url <- Owned

(* What lib.rs does with a NULL parameter array, where url.h has the text  *)
(* parsed without parameters.                                              *)
NullParamsRefused ==
  /\ NULL \in ParamLists
  /\ \E u \in Urls, arg \in Args : ParseWithParams(u, arg, NULL)
  /\ reply' = "URL_EMPTY"
  /\ UNCHANGED Owned

(* The fallible calls, each against the promise for its own arguments. The *)
(* text is the one up to the NUL, as url.h has it; for a Str that ends     *)
(* before its NUL that is not the text that the Str delimits.              *)
AnswersItsArguments ==
  \A u \in Urls, arg \in Args :
    /\ Parse(u, arg) => Contract!Parse(u, arg.cstr)
    /\ \A params \in ParamLists :
         ParseWithParams(u, arg, params)
           => IF params = NULL THEN NullParamsRefused
                               ELSE Contract!ParseWithParams(u, arg.cstr, params)
    /\ \A base \in Urls :
         Join(u, base, arg) /\ fault' = "none" => Contract!Join(u, base, arg.cstr)

(* The memory model implements the contract, but for a NULL parameter      *)
(* array, which is refused: every other step is a step of the contract or  *)
(* changes nothing that the contract speaks of, and a fallible call        *)
(* answers as the contract has it for the arguments of that very call.     *)
KeepsContractSaveNullParams ==
  /\ Contract!Init
  /\ [][ /\ AnswersItsArguments
         /\ [Contract!Next]_<<Owned, reply>> \/ NullParamsRefused ]_vars

(* url.h: a string view is backed by memory that is still there. *)
AllViewsLive ==
  \A v \in views :
    \/ v.mem \in Handles /\ box[v.mem] # NULL
    \/ v.mem \in CStrings /\ cstr[v.mem] # "free"
=============================================================================
