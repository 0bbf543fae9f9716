# Violet.Networking: TLA+ models, model checks and proofs

Violet.Networking is a C++ library of value types for IP addresses, socket
addresses and URLs. The URL type is a handle on a Rust heap object, reached
through a C interface. The library has no threads, no I/O and no timers: what is
hard in it is ownership across the language border, borrowed views, and hand
written parsers and formatters with their boundary cases. The project models
those, checks them with TLC and proves most of what it checks with TLAPS, for every
value of the constants.

## Inventory

| component | state | operations | correct when | status |
|---|---|---|---|---|
| URL objects (`src/Url.cc`, `rust/url/lib.rs`, headers `URL.h`, `url.h`) | raw handles in objects, Boxes on the Rust heap, views and C strings given to the client | Parse, ParseWithParams, Join, move construction and assignment, destruction, the accessors, `UrlError::ToString` | each Box has one owner that frees it once; borrowed views live as long as their object; the headers' promises hold | modelled, proved |
| `url` crate | none | parse, join, query pairs | - | external |
| C clients (`url.h`, `examples/url/capi`) | handles held directly, an error code | new, join, accessors, strerror, free | every Box known to one variable and freed once, nothing read after, nothing left at exit | modelled, proved |
| IPv4 text (`src/ip/AddrV4.cc`) | loop index, octets | FromStr, ToString | exactly the documented texts, the right error, no overrun | FromStr modelled, proved; ToString is one format call |
| IPv6 text (`src/ip/AddrV6.cc`) | parser positions, two vectors, a flag; zero-run counters, a stream | FromStr, ToString | parser and formatter agree on one grammar, no overrun, RFC 5952 run, both return | modelled, proved |
| address values (`AddrV4.h`, `AddrV6.h`) | bytes | ranges, order, bit operators, integers | ranges are those named in comments; order and integers agree; no bit is lost in an integer | modelled, proved |
| socket addresses (`src/socket/*`) | address and port | FromStr, ToString, SetAddress, SetPort, order | round trip, port bounds, the error names the part at fault | modelled, proved |
| `IPAddress`, `SocketAddress` | a variant | FromStr tries IPv4, then IPv6; conversions, order | no text is claimed by the wrong family; one order over both | modelled, proved |
| error texts | kind | ToString | wording only | not modelled |
| version (`Runtime/Info.h`) | compile-time constants | Version | documented shape | not modelled |
| build, packaging, tools, examples | - | - | - | not modelled |

How they interact: `Url`, and a program in C, call the C interface with raw
pointers, which may allocate, borrow or free; the C interface calls the `url`
crate. The socket and
generic address types call the IPv4 and IPv6 parsers, in a fixed order.
`AddrV6::ToString` writes texts that `AddrV6::FromStr` is expected to read.

`PROJECT.json` lists the hazards of this code line by line, with the properties
that cover each.

## Modules

**Url.** `UrlFfi` has what the fallible entry points of `lib.rs` decide for
their arguments (null, not UTF-8, bad parameter, the mapped `ParseError`). `Url`
is the memory model: `handle` is `n_handle` of each object, `box` the Rust heap,
`views` the string views the client holds and the memory they point to, `cstr`
the C strings made by `into_raw`, `fault` how undefined behaviour or an
assertion stopped the program. One action is one member function with all that
it calls. Addresses are reused at once, as an allocator may, so that stale handles can
meet new objects. `tainted` is a history variable: the addresses that a move
assignment duplicated or overwrote. `UrlContract` is the abstract specification,
what the two headers promise, with no memory in it; `Url` is related to it by
reading each object through its handle (`Contract` in `Url`). The contract does not
follow the order of the checks in `lib.rs`: a call names any of the mistakes that its
arguments have, or there is none and it succeeds.

`KeepsContractSaveNullParams` has two parts. Every step is a step of the contract or
changes nothing the contract speaks of; and each fallible call is, for its own
arguments, the contract's call, so that a success, a failure or a code that would
suit other arguments does not do. Its exceptions are these.

- A NULL parameter array, which `url.h:184` allows: the code refuses it (`lib.rs:92`).
  The property says so by name (`NullParamsRefused`): such a call fails with
  `URL_EMPTY` and changes no object. It is among the arguments of every run.
- A text is the one up to its NUL, as C strings are in `url.h`. For a `Str` that ends
  before its NUL this is not the text that the `Str` delimits, and no header
  says which is meant.
- A join on a moved-from base, against `url.h:220`, stops the model (`fault`), and a
  stopped program owes nothing; so does a failing assertion in a debug build.

An argument is a record: `view` is the text a `Str` delimits, `cstr` the one the
callee finds by running to the next NUL. The two differ when a `Str` is cut out
of a longer buffer.

**C clients.** `UrlClient` is a program in C over the same entry points of
`UrlFfi`, after `examples/url/capi/main.c`: `ptr` are its handle variables, `owned`
those it takes for a URL of its own, `error` its error code. Each call either
gets the address of `error` or NULL; in the first case the program goes by the
code, as `main.c` does, in the second by the handle. Nothing is written through
NULL (`map_error_ptr!`), so `error` may be stale. The program keeps to the header
and may begin to exit at any time (`closing`), from when on it only frees. Whether
that is enough is up to the library: `fault` says how the program was stopped.

**IPv4 text.** `DottedText` is what both parsers see between dots: a piece, of
which all that is known is what `std::from_chars` makes of it (constants `Value`
and `Whole`). `AddrV4Text` is `AddrV4::FromStr`, one step for each piece.

**IPv6 text.** `AddrV6Grammar` cuts a text at its colons and dots and defines
`Readings`, the set of addresses a text spells; it is written as a grammar, not
after the parser. `AddrV6Text` is `AddrV6::FromStr`: one step finds "::", one
step for each part of a range, one assembles the words. `AddrV6Format` is
`AddrV6::ToString`: the IPv4-mapped fast path, the scan for zero runs and the
loop that writes, one step for each iteration; the text it writes is in the same
form as the texts the parser reads.

What `ToString` writes is also stated as a function of the words, `Canonical` in
`AddrV6Canonical`, and the run checks that both agree.

**Sockets and generic addresses.** `TokenText` has texts as sequences of tokens:
the separators `.`, `:`, `[`, `]`, and atoms, the stretches of other characters
between them. Over these it defines what the IPv4 and IPv6 parsers return and
what their `ToString` writes, in the terms that the modules above establish
(`LenientQuad`, `Readings`, `Canonical`). `Cut` takes a text apart and `Join` puts one
together a token, or a chunk, at a time, as recursive functions. `GenericAddress` is
`FromStr` of `IPAddress`, `SocketAddress` and the two socket types themselves:
`type` says which, `stage` is the family to be asked next, `value` what is
returned and `error` the kind of the error when there is none. A socket that was
returned may be edited (`SetAddress`, `SetPort`, by way of the conversions of
`SocketAddress`), and what was returned or edited may be printed and read again;
`source` remembers the value. Only values whose numbers are in the tables of texts,
`DecText` and `HexText`, are printed (`HasText`), which bounds a run to a few numbers
and is no bound when the tables have them all. `Values` are the addresses or
sockets of the families that the type stands for; `Divisions` are all the ways of
dividing a text into a host and a rest.

**Address values.** `AddrValues` holds an address of each family, `n_bytes`, and
applies the bit operators of the headers to it, one step for each. The integers
of 32 and 128 bits are sequences of 16-bit halves, the width that TLC's integers
and the provers can deal with; `&`, `|`, `^`, `~` are computed bit by bit. The
ranges are the shifts, masks and literals of the headers as they stand.
`AddrV4`'s default constructor initializes nothing, so a program may start with
any address. The order and equality of sockets and of values of both families are
operators of the same module.

Operators named after a change (`MoveConstructCopying`, `FullLate`, ...), each
just before the definition it alters, are the seeded mistakes of `PROJECT.json`;
nothing in the specifications uses them.

## Runs

| run | question | bounds | result |
|---|---|---|---|
| `url_heap` | is the heap sound, whatever is called in whatever order? | 3 objects, 3 addresses, 1 C string, 3 texts, one of them cut out of a longer buffer, 3 parameter lists, NULL among them, debug build | holds, outside of what a move assignment touched |
| `url_contract` | do the headers' promises hold without move assignment? | 2 objects, 2 addresses, 4 texts, NULL and a cut one, 5 parameter lists (NULL, an empty one, a good one, one mistake, two), release build | holds, but for a NULL parameter array, which is refused |
| `url_assign` | and with move assignment? | the same with 3 texts and 3 parameter lists | violated: handle duplicated (`Url.cc:50`) |
| `c_client` | does a program that keeps to `url.h` only ever use handles that are there, and end with nothing allocated? | 2 URL variables, 2 addresses, 2 C strings, 4 texts and NULL, 3 parameter lists, NULL among them, each call with and without an out-parameter | holds |
| `url_host` | do all views point to live memory? | - | violated for IPv6 hosts (`lib.rs:473`) |
| `v4_text` | which texts, which octets, which error? | all texts of 1 to 6 pieces over 5 | holds |
| `v6_text` | does the parser agree with the grammar, and return? | all texts of 1 to 5 parts over 9 and of 1 to 10 parts over 3 | holds |
| `v6_format` | is the right run shortened, is the text read back, does the function return? | all 6561 addresses over 3 words | holds |
| `generic_text` | is a text taken for the address and port it spells, is the error that of the part at fault, and is what is printed read back as the same value? | IPv6 hosts of up to 5 parts, full ones over 2 words with and without a quad, IPv4 hosts of 3 to 5 pieces, 9 endings, all texts of up to 5 of 5 tokens; 3 addresses to set, and ports up to both bounds | holds |
| `generic_family` | is a text of an IPv6 address taken for one? | five texts of the tests' forms | violated: `0:0:0:0:0:ffff:1.0.0.1` becomes an IPv4 address (`IPAddress.cc:30`) |
| `addr_values` | ranges, kinds, order, masks and their complements? | 38 IPv4 addresses on both sides of each border of a range, 60 IPv6 addresses over the bytes that decide, 3 operands each, 2 operators, sockets with 2 ports | holds |
| `v4_special` | are the special ranges those of their comments? | same, without operators | violated: `Shared` (`AddrV4.h:147`), also `Benchmarking` and `Documentation` |

Why the bounds are enough to be worth running. Three objects and addresses
allow a handle to be duplicated, its Box freed through one owner and the address
given to a third object. Two variables, two addresses and two strings of a C
program are enough for a join whose base is freed before its result, for an address
that is handed out again while a URL made from its last tenant is about, and for an
error text to be open while a URL is. Six pieces are two past the limit of four octets. Ten
parts reach nine words on either side of "::", one more than fit; the nine kinds
of part include every way a part can be wrong. Eight words over zero and two
others show every arrangement of zero runs, and with 65535 among them the
IPv4-mapped addresses.

Nine endings are every way a host may be followed: nothing, a colon, a port at
and past the limit, digits with something behind them, a stray bracket. The 38
IPv4 addresses lie on both sides of the first and the last border of each network
that a comment names, and of 127/8, 169.254/16 and 240/4, and the operands move them
across. `NetworksCommented` is about all addresses.

Deadlock is not checked: a parser stops when it returns, and a program with all
its addresses in use, after a fault or after `MaxSteps` operators has nothing left
to do.

Fairness. `Url`, `GenericAddress` and `AddrValues` have none: nothing makes a
program call them. A call of `AddrV6::FromStr` or `AddrV6::ToString` that is
running goes on running, so their runs have `WF_vars(Next)`, and `Returns` says
that it ends; `MovesOn` says the same of the parser without fairness, step by step.
A C program need not exit, but one that has begun to goes through its frees:
`c_client` has weak fairness of `Free(p)` for each variable and of `FreeText(c)` for
each string, and of nothing else.

## Proofs

The theorems hold for every value of the constants, under the named assumptions
of the modules, which only say what the functions standing for `from_chars`, the
`url` crate and the argument sets range over.

- `UrlProofs`. `Discipline` (types, exclusive owner, live handles, nothing lost,
  live borrowed views, faults blamed) is inductive as a whole: that a destructor
  leaves other handles live needs exclusive ownership, exclusive ownership of a
  fresh Box needs that no untainted handle points to free memory, and views need
  both. `TypeCorrect`, `OneOwner`, `LiveHandles`, `NothingIsLost`, `ViewsOfOwners`
  and `FaultsAreBlamed` are its conjuncts; `OwnersFree` (no step but a destructor
  changes an allocated Box) follows. `UseKeepsContractSaveNullParams` adds that
  without `MoveAssign` nothing is ever tainted, so that every step maps to a
  step of `UrlContract`, to a stutter, or to the refusal of a NULL parameter array.
  It assumes nothing of the arguments. The entry points check in an order of their
  own, so the lemmas `TextChecked`, `ParseWithParamsRefines` and `JoinRefines` show that the
  code reported is always one of the mistakes, and that none is left when a Box is made.
- `UrlFfiProofs`. What the entry points decide is a value or an error code, never
  a raw `ParseError`; both models of the heap rest on it.
- `UrlClientProofs`. `Bookkeeping` is inductive: no fault so far; an owned variable
  holds an allocated Box (what the error code or the handle made the program
  believe is so), no two hold the same, every allocated Box is held, and the views
  are of owned variables. A stale `error` can not break it because the code is
  written on success and on failure whenever it is asked for. `TypeCorrect`,
  `NoFault`, `BoxesHeld`, `ViewsOfUrls` and `FreesDrop` follow.
- `AddrV4TextProofs`. The strengthening relates the octets stored so far to the
  pieces before `next`; from it come `NeverOverruns`, `AcceptsExactly` and
  `BlamesFirst`.
- `AddrV6TextProofs`. The strengthening says that the parser is inside its
  range while it reads one, and that there is no tail without "::". Each action
  is first brought to one of four shapes (fails, begins, reads, ends), and the
  shapes preserve it. `NeverOverruns` needs that the number of zeros to fill in
  is not negative; `AlwaysMovesOn` is the variant of both loops.
  In the same module `FromStrIsTheGrammar`: on every text, of any length, the
  parser returns what the grammar reads and refuses the rest. The grammar tries
  every part of the text as its "::"; first it is shown that only the first empty
  part inside the text can be one (`ReadAtFirst`), that two apart leave no reading
  (`SeveralDoubles`), and that what is left is one range (`ReadAsRange`) or two
  halves (`ReadInHalves`). The invariant `ReadsGrammar` then says of each phase
  that the vectors hold the words of the parts behind `at`, that the head is done
  while the tail is read, and that `seenIPv4` is about the head. Every refusal
  leaves the part `at` in a range that is none, or a second quad (`Refused`).
- `AddrV6FormatProofs`. The loop invariant of the scan: the open run is all the
  zeros before `i` back to a word that is none, and the best run is the leftmost
  longest of those closed before it. `StaysInRange` and
  `ShortensLeftmostLongest` follow. `ReadsBack` needs the loop that writes as well:
  `WriteInv` has the words before `i` in the text, and the run left out once `i` is
  past it; a colon is due exactly when the side being written is not empty
  (`SideGrows`). The run found is the only one `Canonical` can choose (`RunFound`), and
  the three shapes of a canonical text have one reading each (`WholeIsRead`,
  `ShortenedIsRead`, `MappedIsRead`), since only the "::" is an empty part inside
  the text. With `FromStrIsTheGrammar` this is FromStr(ToString(a)) = a for every
  address made of `Hextets`, of which `FormatAssumption` says that the formatter's
  digits are read back one word, or one octet, at a time.
- `AddrValuesProofs`. The lemma `TypeCorrect` is inductive: a byte computed bit by bit is a
  byte, and taking halves apart undoes putting them together. `KindsPartition`,
  `OrderOfOctets` and `NetworksCommented` need only the types: the integers are
  compared half by half, each half is two octets, and `&` with a prefix works on
  each octet by itself. `OrderOfSockets` goes by cases over the families, and
  `NetworkAndHostMakeAddress` bit by bit. `OrderIsNumeric` adds that `V4Less` is the order of the
  32-bit numbers. `MasksBound` says of every step that `&` never moves an address
  up and `|` never down.
- `GenericAddressProofs`. The four properties of `GenericAddress`, for texts of any
  length and for any tables of texts in which `from_chars` reads back what is
  written (`AtomsAssumption`, `WritingAssumption`). Induction over the length of a
  text is over the members of a set: the least length without the property is
  impossible because `<` on the numbers is well-founded (`LeastOf`, `NumbersOf`,
  `SequencesOf`). From it come the lemmas about sequences: what `Find` finds, that
  `Cut` of `Join` gives the chunks back when none has the separator (`CutJoin`), and
  that a text has no other tokens than its chunks and the separator (`CutTokens`).

  Of the parsers it is shown that each returns at most one value and that the value
  is in range (`V4Result`, `V6Result`, `SocketsV4`, `SocketsV6`), that a division of
  a text says something only at the first colon (`V4Said`) or at the first closing
  bracket (`V6Said`), and that no text is a socket of both families (`NotBoth`,
  since one begins with an atom and the other with a bracket). Of `ToString`:
  `CanonicalIsRead` takes `ReadsBack` over from `AddrV6FormatProofs` to chunks of
  tokens, and `V6Written`, `SocketV4Written` and `SocketV6Written` say that the text
  is read as what it was written for. That the text of an IPv6 address is no IPv4
  address, although the IPv4 parser ignores what follows its digits, is `TextNoV4`:
  a canonical text with dots in it is that of a mapped address and begins with a colon,
  where the IPv4 parser finds no digit.

  The invariant `IInv` adds to the types that nothing is returned before a parser
  has answered (`Waiting`), that IPv6 is asked of a `SocketV6` or after IPv4 has
  refused (`AskInv`), that an answer is one of a parser asked and a refusal that of
  all of them with the error of the type (`AnswerInv`), and that a printed text is on
  its way to be read as its value (`SourceInv`). Types need `AskInv`, since a
  `SocketV4` must not be answered by the IPv6 parser; `SourceInv` needs `AskInv`
  and that a text of one family is refused by the other; `AsWritten` and
  `BlamesRightPart` need `AnswerInv`. `TypesKept`, `AsWritten`, `BlamesRightPart`
  and `ReadsBackBoth` follow.

Only model-checked: the liveness properties `Returns` and `CleansUp`, since liveness
under fairness is out of the prover's reach. What `TokenText` takes the parsers and
the formatter to return is what `AcceptsExactly`, `FromStrIsTheGrammar` and
`ReadsBack` show of their models; `TokenText` uses it as a definition.

## What the models leave out

- Characters. A piece is known by what `from_chars` returns for it. The hex
  parser reads one to four digits, so `value > 0xFFFF` in `parseHextet` cannot
  happen and the error `kPartTooLarge` is unreachable; the model has no such
  outcome.
- `UInt` is taken to be as wide as `size_t`, as the comparison with `Str::npos`
  in `AddrV6.cc:76-77` and the parser's tests require.
- The accessors of `Url` that differ only in which part of the URL they return
  are one action. Assigning a `Url` to itself changes nothing and is no step.
- Allocation never fails in the code's terms; in the model it waits for a free
  address, which bounds the heap.
- Which domain, path or query a URL has, and error wording.
- What is done with a view. `NeverFaults` says that no null, freed or foreign handle is
  dereferenced or freed; it does not say that a client may read its views, which
  is `ViewsLive` and, for IPv6 hosts, not so (`url_host`).
- The length of a view and the NUL that is, or is not, behind it: both need the
  characters of a URL, which only the external crate has. A view is known by the
  memory it points to.
- The provers see 16-bit halves, not whole integers; the overloads that compare an
  address with an integer are those that compare it with that integer's address.
- `IPAddress::ToString` calls `ToString` of an `Optional`, which is not in this
  repository, for IPv4 (`IPAddress.cc:44`); the model writes the address, as
  `tests/IPAddress.test.cc:51` expects.

Some disagreements with the documentation show in the code at once and have no
run.

- `UrlError::ToString` never frees the string that `url.h:411-412` wants freed
  (`Url.cc:29`; the action `ErrorToString` takes a C string for good).
- A `Str` that is not followed by a NUL is parsed with what comes after it
  (`Url.cc:55`; see `KeepsContractSaveNullParams` above).
- A NULL parameter array fails with `URL_EMPTY` (`lib.rs:92`), where `url.h:184` has
  it "or `NULL` if no parameters are needed". All runs of `Url` and `UrlClient` have
  such calls. `UrlContract` follows the header, and `KeepsContractSaveNullParams` names
  what the code does as an exception to it.
- The error code is set to `URL_OK` on success (`lib.rs:35`), which `main.c` relies
  on, while `url.h:188` says it is set on failure. `UrlClient` follows the code.
- `examples/url/capi/main.c:90-91` frees the Boxes of Rust with `free(3)`, against
  `url.h:225`, prints views that have no NUL behind them with `%s` (`:48`; `url.h:94`
  counts one in the length), and drops an error text and a URL when it returns early
  (`:75`, `:85`). `UrlClient` is a program that keeps to the header.
- `Version` appends the format string ".{}" and a number (`Info.h:104`), where its
  example (`Info.h:92`) has the build number.
- The IPv6 parser accepts a dotted quad in front of "::" although
  `tests/ip/AddrV6.test.cc:252-255` has quads that are not last refused
  (`AddrV6.cc:155`; the grammar follows the code).
- `Global` joins its terms with `&&`, so that it holds of every address
  (`AddrV4.h:140`), which no doc contradicts.

## Not modelled

- The `url` crate: external, known by the values and errors it returns.
- Error wording: one string for each kind; the kinds are modelled.
- `Runtime/Info.h`: compile-time constants and one function that formats them; there
  is no state and no choice in it.
- Build files, packaging and release tools; the C++ example, a fixed sequence of
  calls that `Url` covers.

## Order of the modules

From the core outwards, in the order in which they were written and rest on one
another; all are done.

- A. `UrlFfi`, `UrlContract`, `Url`, `UrlFfiProofs`, `UrlProofs`: ownership and views.
- B. `DottedText`, `AddrV4Text`, `AddrV4TextProofs`.
- C. `AddrV6Grammar`, `AddrV6Canonical`, `AddrV6Text`, `AddrV6Format`, and
  `AddrV6TextProofs`, `AddrV6FormatProofs`.
- D. `TokenText`, `GenericAddress`, `GenericAddressProofs`: sockets and the order in
  which the families are asked.
- E. `AddrValues`, `AddrValuesProofs`: ranges, order, operators.
- F. `UrlClient`, `UrlClientProofs`: programs in C.

Every invariant and action property that a run checks is stated by a theorem.
