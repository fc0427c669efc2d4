# fastly.js: models, checks and proofs

fastly.js runs Fastly VCL locally: it parses VCL, compiles each subroutine to a function, and
drives HTTP requests through Fastly's lifecycle (`vcl_recv` ... `vcl_log`) against real or
synthetic backends, as a proxy (`index.ts`, Bun) or in a browser playground (`web/`). This
directory holds TLA+ models of its state machines and of the algorithms behind its statements,
the TLC runs that check them, and TLAPS proofs about the request lifecycle, the interpreter and
its calls, the call limit, access control lists, backends, rate limits, the default platform
and the lexer. Paths below are relative to the repository; line numbers are those of the commit
the models were written from.

## 1. Inventory

| part | source | state | operations | models |
|---|---|---|---|---|
| request pipeline | `src/runtime/pipeline.ts` | the cache `Map`; per request the context (`req.restarts`, `obj`, `beresp`, hash data) and the locals of `runPass` | `runPipeline` (restart loop), `runPass` (one pass), `errorResult`, `computeCacheKey` | `Pipeline`, `ResponseCache` |
| statement interpreter | `src/vcl-compiler.ts` 917-1440, 1923-2101 | the statement loops under way, the string a statement returned, `currentSubroutine`, `functionalSubDepth` | `compile`, `validateGotos`, `compileSubroutine`, one `execute*Statement` per statement | `Interpreter` |
| assignments, expressions, values | `src/vcl-compiler.ts` 588-752, 1341-1898, 1923-2033, 2552-2870, 3190-3345, `vcl-value.ts`, `vcl-builtin-types.ts` | the header tables, `locals`, `localTypes`, `workspaceBytes`, `re.groups`, the properties of `req`, `bereq`, `beresp`, `resp`, `obj`, `client` | `executeSetStatement`, `executeUnsetStatement`, `executeAddStatement`, `executeDeclareStatement`, `applyCompoundOperator`, `resolveVariable`, `dictGet/Set/Unset` | `Texts`, `Values`, `Headers`, `Locals`, `Predefined` |
| limits | `src/vcl-limits.ts` | `workspaceBytes`; the memo of one walk | `headerWorkspaceCost`, `seedRequestWorkspace`, `checkCallTreeLimit` | `Headers`, `CallTree` |
| header functions | `src/vcl-header.ts` | the header tables | `header.set`, `unset`, `filter`, `filter_except`, `std.collect` | `Headers` |
| query strings | `src/vcl-querystring.ts` | two caches of compiled patterns | `get`, `set`, `add`, `remove`, `clean`, `filter`, `sort`, `globfilter`, `regfilter` | `QueryString` |
| access control lists | `src/vcl-acl.ts`, `vcl.ts` 510-537 | `context.acls` | `validateAclEntries`, `aclMatch`, `std.acl.*` | `Acl` |
| context, backends, directors | `src/vcl.ts` | `context.backends`, `context.directors`, `req.backend`, `current_backend` | `std.backend.*`, `std.director.*`, `executeVCL` | `Backends`; `executeVCL` in `Pipeline` |
| server | `index.ts` | the cache and `setupContext` shared by all requests | `fetch`, `fetchFromBackend` with its fallback request | `Backends`; its outcomes in `Pipeline` |
| rate limiting, WAF | `src/vcl-ratelimit.ts`, `vcl-waf.ts` | module-level maps of counters, penalty boxes and buckets, shared by all requests | `check_rate(s)`, `ratecounter_increment`, `penaltybox_add/has`, `rate_limit` | `RateLimit`, `TokenBucket` |
| browser simulation, platform | `src/runtime/browser.ts`, `platform.ts` | the default platform (a module variable) | `runBrowserSimulation`, `setDefaultPlatform` | `Simulation` |
| lexer | `src/vcl-parser.ts` 463-1027 | the text, a position with its line and column, the tokens so far | `tokenize`, one `tokenize*` per kind of token | `Lexer` |
| parser | `src/vcl-parser-impl.ts` | the tokens, `current`, the program so far | `parse`, one `parse*` per construct | `Parser`, against `Printer` |
| function libraries | `src/vcl-strings.ts`, `-std`, `-math`, `-table`, `-accept`, `-address`, `-binary`, `-utf8`, `-misc`, `-time`, `-digest`, `-uuid`, `-esi` | none | pure functions | not modelled |
| loaders, playground, tests | `src/platform-*.ts`, `vcl-node.ts`, `web/*`, `vcl-testing.ts` | | | not modelled |

**How the parts interact.** The server creates one context per request and calls
`runPipeline` with the shared cache. `runPass` runs the compiled subroutines
through `executeVCL`, synchronously; each compiled subroutine is a run of the
interpreter over the shared AST and returns an action string. The only point
where a request gives up the JavaScript thread is `await getBackendResponse`
(pipeline.ts:219), and everything shared (the cache, backend objects, rate
counters, penalty boxes, the default platform) may change while it waits.

**What is hard.** Interleaving at that one `await`; a context that outlives a restart; deletion
of a stale object by key; a ttl of zero that means "unset"; subroutine results that are strings
interpreted by different loops in different ways; parameters that are locals of one table per
request; exceptions that mean "error" in one phase and "deliver" in another; backend failures
after part of the request state has been switched. The hazards are listed with their lines, and
the properties that cover them, in `PROJECT.json`.

## 2. Modules

### `Pipeline` and `ResponseCache`: the request lifecycle

`Pipeline` models `runPipeline` and `runPass` for any set of requests on one
cache. `thread` is the request whose synchronous turn it is, `pc[r]` the place in
`runPass` it has reached; a turn starts with `Arrive`, `Answer` or `Fail` and ends
with `Send` (the await) or a result. Each phase is an action named after it
(`Recv`, `Lookup`, `Hit`, `HitDeliver`, `HitLog`, `MissOrPass`, `Send`, `Answer`,
`Fail`, `Fetch`, `Deliver`, `Log`, `ErrorRestart`, `ErrorDeliver`, `Restart`,
`RestartLimit`, `LimitError`, `Reject`). A VCL subroutine is user code, so its run
picks the action it returns, and what it writes to `beresp.ttl`,
`req.restarts` and `obj.status`, from the constants. `passes`, `verbs`, `born`
and `backend` are history: they say in which pass something happened.

Cache keys are abstract; bodies and headers are left out; `grace` and
`stale_while_revalidate` are one window, since `runPass` only adds them. `Tick`
lets time pass anywhere, even inside a turn, because the code reads the clock
afresh at each use.

`ResponseCache` is what the cache promises with the lifecycle left out: a request
looks, and is answered at most once, by one step, with an object that the cache
still holds and that was fresh at the instant of the look, or stale, and then the
same step removes it; an object is stored alive and removed unserved only past its
whole window. `Pipeline` implements it (`ImplementsAtomicCache`), with the
identity mapping for the cache, each request's outcome as its answer, and the time
of the lookup (`at`), while the request is on the hit path, as its look. The
mapping is the point: in the code the lookup, up to three subroutines and the
deletion by key are separate steps.

### `Interpreter`: one run of a subroutine

`executeStatement` is recursive; the model keeps the recursion as a stack of
loops, one frame per `for` over a statement list: `sub` (compileSubroutine),
`call`, `eval` (a typed subroutine inside an expression), `raise` (an error
statement over `vcl_error`'s body) and `block` (a branch). A statement that
returns a string sets `signal`; each kind of loop then passes it on
(`BlockPasses`, `CallPasses`), drops it (`CallKeeps`, `RaiseIgnores`,
`EvalKeeps`), jumps (`Jump`) or ends the run (`Exit`). Expressions are abstract:
any branch may be taken, and any statement that evaluates an expression may throw
(`Fault`) or reject the request (`Reject`: `UnsupportedFeatureError`,
`VCLLimitExceededError`). Statements out of scope throw. JavaScript's call stack
is `MaxDepth` frames deep, and overflowing it is an exception like any other.
Programs are a constant: compound statements hold their nested statements right
behind them, in source order, which is the order `validateGotos` flattens to.

### `RateLimit` and `TokenBucket`: what requests share besides the cache

`RateLimit` has the rate counters and penalty boxes of `vcl-ratelimit.ts`, one
action per function (`RatecounterIncrement`, `CheckRate`, `CheckRates`,
`PenaltyboxAdd`, `PenaltyboxHas`) and the clock (`Clock`). `Current` is
`getOrCreateCounter`: a counter keeps the window of the call that created it, and
an ended window starts over only when a call finds it ended. `EntryOf` is what
`evaluateFunctionCall` does to an entry written as a bare variable: it hands over
the variable's name. `charges` is history. A key is the sequence of the parts the
code joins with colons; entries are single parts here, so the clash of an IPv6
entry with another key is not explored. A lookup that finds the entry still in
the box, or not in it, changes nothing and is a stutter. `open_window` is left
out: it adds a counter under a random name that nothing else reads.

`TokenBucket` is `waf.rate_limit`. The code's tokens are floating point; here a
token is `window` units and `limit` units flow in per tick, which keeps every
quantity whole and the comparisons exact.

### `Backends`: who is asked, and who is asked instead

`Backends` opens up the pipeline's await: `fetchFromBackend` with its routing
(`Route`), the first request (`Answer`, `Fail`), the fallback request after a 5xx
(`FallbackAnswer`, `FallbackFail`) and the backend `runPass` records (`Body`);
`Keep` is the way on to the body, which may fail too (`Fail`). Every request
copies the two tables of backends and directors, but not what they hold
(index.ts:226-227), so an object here is a name and its owner: a request whose VCL
adds a backend gets one of its own, a request whose VCL adds a backend to
`main_director` changes the director of everybody. `DirectorAdd`,
`DirectorAddBackend` and the others are the `std` functions VCL may call in its
turn. `Mark` is the embedding program, which may change a backend's health between
turns (docs/tutorials/04-backend-configuration.md:164); nothing in the repository
does. `Selected` is `select_backend` with its quorum; weights and hashes come
down to any healthy member, and a request's class of URL to any of the routes. What
VCL assigns to `req.backend` is left out, since the routing replaces it (the same
tutorial, line 78), as are backends declared in VCL. `response`, `asked` and `lost`
are what the properties compare with `beresp.backend`. The statuses 502, 504 and 400 of a request
that failed (index.ts:191-202) are one, `"gateway"`: no step tells them apart.

### `Lexer`, `Parser` and `Printer`: from text to program

`Lexer` is `tokenize`: one action per branch of its loop, in the order of the
branches (`Whitespace`, `LineComment`, `TripleString`, `ShortString`, `Number`,
`Word`, `Punctuation`, `Dot` ...), with `position`, `line`, `column` and `tokens` as
in the code. Each kind of token has an operator that says where it ends
(`BlockCommentEnd`, `ShortStringEnd`, `NumberEnd` ...), and `Advance` moves the
coordinates the way `advance` and `advanceTrackingLine` do. `BadEscape` and
`BadNumber` throw. `DotAgain` is the branch that continues without having moved. A
character is a UTF-16 unit; the classes hold the few characters the texts use. Of
the escapes, `%C.` and `%e.` begin characters of two and three bytes, which `%a.` continues
(`EscapesOk`); all others stand for one byte each.

`Parser` is `VCLParser`: `current` moves over `source`, and every declaration is one
action (`ParseSubroutine`, `ParseACL` ...; `Unexpected` and the failures of the others
throw). Below declarations the code is a recursive descent without state besides
`current`, so it is written as operators from a place to a node and the place behind
it. The grammar is data: `IfShape == <<"(", "expr", ")", "block", "else">>` says what
`parseIfStatement` consumes, where a mark stands for any punctuation, because
`consume(TokenType.PUNCTUATION, ...)` looks at the type only. `Levels` is the chain
`parseLogicalOr` ... `parseFactor`; `Chain` its loops; `Concat` the implicit
concatenation. Checks the functions make on what they have read are in the operators
(`Mismatch`, `NumberLiteral`, `SwitchOk`, `Entry`).

`Printer` is the reference the parser is held against, written from the precedence
table of docs/reference/vcl-operators.md:459-480: it prints a program with as few
parentheses as that table allows. Programs given as trees are printed and parsed,
and every accepted source is printed and parsed again (`Again`), with `origin` the
program that was printed. `RoundTrip` and `WordsKept` state the result; what the
parser drops on purpose (comments, `pragma`, unknown tokens of declarations) is
named in `Lossy`.

### `Texts` and `Values`: what expressions yield

A text is the sequence of its characters, a number one of them. `Texts` has what the
interpreter does with a header's text: its lines (one per `add`), its first line, its
subfields (`DictGet`, `DictSet`, `DictUnset`) and what it costs the workspace. `Values`
has the kinds of values the code tells apart: JavaScript strings, `VCLString` with its
not-set, concatenations that remember which of their parts were not set, numbers and
booleans; the converters between them (`TextOf`, `RawText`, `DisplayText`, `ForHeader`,
`ForLocal`); the two notions of truth (`JsTruthy`, `Truthy`); equality; and the compound
operators (`Combine`) with integers of `IntBits` bits. Plain arithmetic is whole and
unbounded here: the code computes `+=` in JavaScript numbers, and only the bitwise
operators wrap to 64 bits.

### `Headers`: header statements and the workspace

One action per statement or function that writes a header: `SetHeader` and
`SetSubfield` with `=` and `+=`, `UnsetHeader`, `UnsetSubfield`, `UnsetWild` (a name with
`*`), `Add`, `Collect`, `HeaderSet`, `HeaderUnset`, `HeaderFilter`, and `MatchHeader` and
`Test`, which read. An operand is any literal, header, subfield or matched group of the
present state, alone or concatenated with what is not set. `Charge` is
`chargeRequestWorkspace`; a total past `MaxWorkspace` ends the request. `charged` (the
headers statements have paid for in full) and `last` are history. Header functions find
a name in any spelling, statements only as it is written, which is why the runs have
one name in two spellings.

### `Locals`: one table, its types and its calls

`locals` and `localTypes` belong to the request, and every subroutine writes to them. A
call begins with its arguments (`EnterSub`), which are evaluated and bound one by one, as in the
code: before each `BindNext` typed subroutines may run (`Evaluates`), with whatever they do to the
table, or an exception may end everything (`ThrowOut`). `bound` says how many parameters have their
values; with the last one the body, and with it the `try` of the code, has begun (`InBody`). What a
parameter shadows is saved just before it is bound by a call statement, and before its argument is
evaluated by a typed subroutine (`Turn`), so that what the evaluation does to a local of that very
name is undone with the call. At the end (`Leave`), or when an exception
passes (`ThrowOut`, or an operator that throws), a call in its body gives back what it saved
(`Restored`); one that is still binding gives back nothing. `before` is history. Which
statement comes next is `Interpreter`'s business: here any may. The names of a subroutine's
parameters are taken to be distinct (the parser does not ask for that).

### `Predefined`: the variables of the context

`SetVariable` is `executeSetStatement` for the variables of `req`, `bereq`, `beresp`,
`resp`, `obj` and `client` that can be set: the value a compound operator starts from
(`TargetValue`), what is kept of the result (`ToKeep`), where (`FieldOf`), and what else
is written (`Shadow`, `chosen`, `results`). `Variable` is what `resolveVariable` and
`coerceVariableRead` make of it, with the declared types of `vcl-builtin-types.ts`.

### `CallTree`, `Acl` and `QueryString`: algorithms as state machines

`CallTree` is `checkCallTreeLimit`: its recursion is a stack of visits, its memo `costs`,
and the order of names any order. It runs on `Interpreter`'s statement lists. `Acl` has
the two loops of `vcl-acl.ts`, over entries and over what an entry resolves to, with
`std.acl`'s edits between them; an address is a sequence of bytes of `ByteBits` bits.
`QueryString` parses a URL into its ordered parameters, changes them and writes them
back, one action per function, with the operators of `Texts`; escapes are characters of their own
(`Codes`), and `Bytewise` is the order of all others (`Signs`).

### `Simulation`: who owns the default platform

`Start` saves the default platform and installs the simulation's own, `Turn` is what runs
between two awaits, `EndSimulation` the `finally`. `crossed` is history: a simulation
ended before one that had begun within it.

### Compositions

`MCShared` composes what outlives a request (`RateLimit`, `TokenBucket`, `Backends`,
`Simulation`), `MCStatements` what the VCL of one request does or must pass
(`Interpreter`, `Headers`, `Locals`, `Predefined`, `CallTree`, `Acl`, `QueryString`),
`MCSyntax` the lexer and the parser. In each a behaviour is of one component, chosen in
the initial state: none of them reads what another one keeps (which statement runs next, and what
an argument runs, is open in `Locals`; `CallTree` takes a program before it runs), so their
products would add interleavings of steps that commute, and nothing else. `Pipeline` and
`ResponseCache` are composed by refinement.

## 3. Runs

| run | question | bounds | result |
|---|---|---|---|
| `pipeline` | cache and restart safety, and refinement of `ResponseCache` | 2 requests, 1 key, 1 restart each, ttl in {-1, 0, 1}, clock to 2; 1.3 million states, symmetry on requests | holds |
| `pipeline_live` | every request that starts is answered | 2 requests, 1 restart, no symmetry | holds |
| `statements` | control flow; headers and their account; locals across calls; predefined variables; the call limit; lists; query strings | about 2200 programs of up to three snippets, call stack of 6 loops, typed recursion cut at 2; 2 header statements on 2 scopes and 2 spellings; 3 statements on 2 locals, integers of 4 bits, 2 calls deep; 2 settings of any predefined variable; 512 call graphs of 3 subroutines; lists of 2 entries and an edit, addresses of 2 or 1 bytes of 2 bits; 5 URLs and 2 changes; 727 000 states | holds |
| `shared` | counters, penalties and buckets against the clock; who is asked, who instead, what is recorded and how failures are reported; whose platform | one counter, entry and box, windows of 1 and 2, lifetimes of 2, 4 increments, clock to 6; buckets of limits 1 and 2, windows 2 and 3, 7 requests; 2 requests with 2 passes each, one `std` call and one change of health anywhere; 3 simulations; 3.0 million states, symmetry on requests | holds |
| `syntax` | tokens end where they should; programs mean what the documented precedence says, with nothing lost | all texts of 4 to 7 characters over 8 alphabets, strings of up to 4 escapes, up to 6 quotes, slashes, escapes and surrogate pairs; 9 000 programs and 140 000 token sequences; 1.2 million states | holds |
| `restart_reset` | docs: a hard limit of 3 restarts | VCL may set `req.restarts = 0` | violated |
| `error_status` | comment: a backend error leaves its status in `obj` | | violated |
| `bare_return` | docs: a bare `return;` exits a custom subroutine | | violated |
| `rate_entry` | docs: a counter is for one client's `client.ip` | 2 clients | violated |
| `logical_notset` | docs: `&&` is true if both expressions are | one condition of two headers | violated |
| `argument_throws` | comment and docs: parameters are not seen outside their subroutine | as `statements`, locals only | violated |
| `lexer_hang` | docs: a problem is reported by an error | texts of up to 5 digits and dots | violated |

**Why the bounds are enough.** In `pipeline` two requests are what it takes for one
to store, expire, serve stale or delete between the lookup and the store of the
other, and a lifetime of one tick with a clock to 2 reaches each of fresh, stale
and expired, before and after the await. One restart reaches both sides of the
restart limit, and every pair of passes of a request is a pair of successive
ones. More keys add nothing: entries under different keys meet only in ids. The
proofs remove these bounds altogether. In `statements` three snippets suffice for a
goto with its label before, after and both; a callee and a typed subroutine that
call each other reach the recursion cut and the stack's end. Two header statements are a
write and one that reads, moves or drops what it wrote, from a request that comes in
with a header or without; the limit of 48 bytes is passed by the second. Three
statements on locals are a call with a typed one in its arguments or its body, a write and a fault or
a return (bindings and the ends of calls are not counted); four bits
hold every case of a shift (sign, zero, full width), and integers of one digit keep
texts of numbers apart. Two settings are what it takes for one variable to reach another.
The graphs have cycles, calls of themselves, of a name that is not declared, and in both
branches of an `if`. Two entries overlap, coincide or exclude one another at prefix
lengths inside a byte, on a byte's edge, 0 and the full width; the proofs are for any list. In
`shared` four increments fill one window past either threshold and reach into the next, the
clock passes three windows, and the pairs of windows for `check_rates` include the
one where both are one counter; seven requests empty a bucket of two and watch it
refill twice. One request changes what the other awaits; one `std` call
anywhere reaches every single change of a table or of a shared director, one change
of health puts it before, between and after the two requests of a fetch, and two
passes show what a restart leaves behind. Two calls in a row, such as adding a
backend and then sharing it, are not explored. In `syntax` every alphabet holds the
characters of constructs that could be taken for each other (numbers and units,
quotes and escapes, braces and long strings, comments and operators), and five to
seven characters open one, close it and begin the next. The programs have every pair
of operators in either order and nesting, and the token sequences put every item of a
construct where another one is expected.

**Preconditions.** `RefusedForCause` is checked where the
callers of `check_rate` agree on a counter's window (`Windows = {2}`,
`DefaultWindow = 2`): a counter made by `ratecounter_increment` has a window of 60 s
whatever `check_rate` asks for later (section 5). `BerespNamesAnswerer` is about
passes whose fallback request, if any, was answered: when it was lost, the first
response is delivered and `beresp.backend` names the fallback (section 5).
`PenaltyServed` has all additions
to a box last equally long: a later, shorter addition overwrites a longer one
(`vcl-ratelimit.ts:155`), by design of the Map. `SubfieldsApart` is about headers of one
line: set reads the first line and rewrites them all (section 5). `VerdictExact` is about
programs without recursion, and without calls in bare blocks, which the walk does not
see. `AclLongest` is about lists in which no network is both as-is and an exclusion:
`std.acl.add_entry` validates nothing and may make one. `OthersRead` is about names that
need no escape, since names are written back decoded. `WordsKept` is about identifiers, literals and
operators: a statement that is a keyword alone (`esi;`, `restart;`) has none, and that it is kept is
`RoundTrip`'s part. `ParametersRestored` is about calls whose body has begun. `PlatformNests` is about
simulations that end in the reverse of the order they began in. `LiteralsClose` leaves out the
quoted strings of section 5 that are miscounted; the texts have them, and what follows them.

**Fairness.** `Pipeline` assumes weak fairness of each request's turn (a turn is
synchronous code without loops over the model's steps) and of its backend's
answer or failure (`AbortSignal.timeout` in `fetchFromBackend` bounds every
request). It assumes nothing of arrivals and of the clock. `Interpreter` assumes
that synchronous code goes on (as does `MCStatements`, for it), and so does
`LexLiveSpec`: `tokenize` is one loop.

## 4. Proofs

### `PipelineProofs`

All are theorems about `Spec` for any requests, keys, limits, lifetimes and values
VCL may choose, under the assumptions named in `Pipeline`
(`PipelineAssumption`, `NoEntryAssumption`).

The inductive invariant `IInv` adds to the properties what they rest on:
`TurnIsHeld` (a request that is not waiting, idle or done holds the thread, so no
other request runs between its lookup and its answer), `EntriesAreSound` (objects
are stored alive, in the past, under distinct ids), `HitHasKey`,
`ResultsAreFinal`, `KeyMeansLookup`. `HitIsLive` alone is not inductive: another
request's store could replace the entry, which `TurnIsHeld` rules out;
`StaleServedOnce` needs the ids of `EntriesAreSound`. From `IInv` follow
`TypeCorrect`, `HitsAreLive`, `StaleOnce`, `BerespIsOwn`, `FreshObjectsAreKept`,
`OnlyLookupsStore` and the refinement `Implementation`. `RestartsAreBounded` needs
another invariant (`RestartsCountPasses`: the counter is the number of passes less
one) and the hypothesis that VCL leaves `req.restarts` alone; without it the run
`restart_reset` shows the bound fails.

### `InterpreterProofs`

All are about any programs. `ErrorsWin` needs not even that they are well formed, since
it only matters of what kind each loop is. Its invariant `ErrorHolds` says that, once an
error statement has been reached outside expressions and while the run goes on, either
vcl_error's body is under way for such a statement with no typed subroutine around it
(`Erring`), or the string "error" is on its way out and nothing that is left drops it
(`Passing`). A returned string ends in a `raise` loop only by making that loop's own
`error` come; a goto out of it goes nowhere; an exception in the five subroutines where
`error` is allowed returns "error", too.

`GotosFindLabels` and `LoopsMoveForward` rest on what `validateGotos` has checked and on
where the loops stand (`PInv`). `Loaded` is the verdict on the program; `Placed`, that
every loop's statements are whole (`Whole`) and that a `block` lies in the compound
statement the loop around it is just past (`Stems`); `GotoAhead`, that the label of a
goto on its way out is not behind the innermost loop. `validateGotos` looks at the
flattened subroutine, and a goto leaves one loop after the other: that the label is not
behind the next loop either is what `Placed` adds. `Bounded` and `Noted` complete the
types (`LoopsTyped`).

### `StatementProofs`

Three of the components `MCStatements` puts side by side.

`CallersGetTheirLocalsBack` is about `LocalsSpec` for any names, parameters, arguments
and depth of calls. `ParametersRestored` speaks of the step in which a call ends, and an
exception ends any number of calls in one step. `LInv` says that every call on the stack has saved
what its parameters' names meant before (`Remembers`): those it has bound, and for a typed
subroutine that is still evaluating arguments one more (`Turns`). A call in its body has therefore
saved all of them (`BodyGivesBackAll`); one still binding would give back nothing, so the
theorem promises nothing of it, and the run `argument_throws` shows that nothing holds.
`Unwound` is a fold: `Unwinding` is the equation it satisfies, and `LeftOver` is `Unwound` without
recursion, since of several calls that shadow a name the outermost gives it back last.

`VerdictsAreExact` is about `TreeSpec` for any finite call graphs, any order of names and
any limit. `Inlined` is the reference, rounds of inlining; without recursion a round more adds
nothing (`Acyclic`), so that what a subroutine comes to (`Size`) is one for each of its calls and
what their callees come to (`SizeIs`). `Walk` is the invariant: the sum so far of each activation
on the stack is that of the calls it has passed (`Counted`), each waits at a call of the next one
(`Chained`), sizes fall from one to the next, so that the walk never meets a subroutine it is
visiting, whose cost it would take for 0 (`Falling`), and the memo holds sizes and the ruling is
about the names that are left (`Ruled`). `WalksTyped` adds that no subroutine is on
the stack twice, which is what `visiting` is for.

`AclLoadsConsistentLists` and `AclMostSpecificDecides` are about `AclSpec` for any list, any
width of a byte, any length of an address and any edits, under `AclAssumption`. The run `statements` compares networks as numbers
(`AclLongest`); the proofs compare them byte by byte, as the code does. The inductive
invariant says what the two nested loops know when they have come to entry `row` and
part `part` of it: `SeenKnows`, that the keys met are those of the entries before, each
with one negation, and `BestKnows`, that the best entry so far holds the address and has
a prefix at least as long as any entry before that does. Neither result is inductive: at
the end of a loop `LoopIsOver` turns "the entries before" into "the list". `Consistent`
gives `OneNetworkPerSize`, that two networks of one prefix length which hold one address have
one key, so that the first of several equally long prefixes may decide for all. From the
invariant follow `AclLoadsConsistentLists` and `AclMostSpecificDecides`.

### `SharedProofs`

`FallbackAsksAnother`, `FailureHasStatus` and `BerespNamesSender` are about any number of
requests, passes, calls of VCL and changes of health, and any state of the directors.
`PlaceTells` is the whole history of a pass by the place it has come to: who was asked, who is
the current backend, whose response it is. What other requests do cannot matter, since
nothing of that is shared (`OnlyOwn`). `HealthyWhenAsked` needs the types of what is
shared as well (`Typed`): a director may hold the object of another request, so its members,
whoever added them, must be objects that have a health, of which it selects one that is
healthy (`SelectedAreHealthy`).

`PlatformsNest` is about any number of simulations, of turns, and a platform
registered before or not, under `SimulationAssumption`. `PlatformNests` is not inductive:
it says nothing of what an outer simulation will find to restore. `Stacked` adds that
the simulations under way are ordered by the one they began within and that each found
the platform of the next one out, `InnermostRules` that the innermost is the default,
`BaseWaits` that the outermost found what had been registered, if anything had. All hold only
while no simulation has ended before one that began within it.

The rest is about `RateLimit` and `TokenBucket`. `PenaltiesAreServed` assumes that all additions to penalty
boxes last equally long (`Ttls` is one number): otherwise a later, shorter one replaces the
expiry of a longer one, as the code has it. The invariant bounds the expiry of an entry below
by the expiry its calls asked for, and all of those above by what an addition of this instant
would give.

The others of `RateLimit` are about any counters, entries, increments, thresholds and times.
`Ledger` relates the counters to the history of charges. `Counts` is `CountIsWindowSum` itself.
`SlidingBound` is not inductive, because a later charge adds to a span that began in an earlier
window: `Slides` says of each counter that what the running window let through is within the
threshold, and so is what the part before it of any span that reaches into it let through, so
that a span over the edge of two windows has at most twice the threshold. `Caused` remembers
what each refused call saw, and charges made later do not change the sum up to it. Only
`RefusalsAreJust` needs that all callers of a counter agree on its window (`Agreement`): in the
code `check_rate` counts in the window of whichever call made the counter.

`GrantsAreBounded`, `DenialsAreJust` and `BucketTypes` are about any limits, windows and times.
A bound on what was granted is not inductive without what is left: `Conserved` says that what a
key was granted in a span up to its last refill and the tokens it holds together came from the
limit and from what flowed in during the span, and `GrantsAreRefills` that nothing was granted
since. Denials need the other side: `Due`, that what flowed in since any moment of the last window
is still in the bucket or was granted since, and `Numbered`, that no two requests are one.
Products of variables are set apart in `Inflow`.

`SideBySide` says that of the components `MCShared` puts side by side each is what it is alone,
so that its theorems hold of it there; `SharedTyped` is the first use of that.

### `LexerProofs`

All are about `LexSpec` for any set of texts; `LexerAssumption` says only that a text is a
sequence of characters, and all that are in none of the classes are alike to `tokenize`. The
inductive invariant is small (`LexInv`: the reader is in the text or just behind it, its line
and column are positive, and the tokens follow one another, `Chain`), and each of its steps
needs to know where a token ends. That is what the first half of the module is about, from the
search operators (`AfterIs`, `FindIs`, `PastIs`: the place they return has what was looked for
and no place before it has) up to one lemma per kind of token: `Ends(p, i)` says that a token
at `p` takes at least a character and stays in the text, which for `ShortString` means that
what `advance` crosses before the closing quote is less than the whole (`ShortStringEnds`).

`TokenizeStaysInText` is the type invariant. `NumbersTakeAllTheyCan` compares `NumberEnd`, which
looks for the end of one part after the other as the code does, with `IsNumber`, which guesses
all of them at once: no choice of a shorter fraction or exponent makes the whole longer, since
a dot, an exponent's marker and a unit's letter are none of the digits before them
(`NumeralLongest`, `HexNumeral`, `DecimalNumeral`) and a numeral has neither blanks nor the first
letter of a unit in it (`Solid`). `LiteralsDoClose` says that the delimiter is the first one that
fits, in any text; quoted strings without an escape that hold a character of two UTF-16 units
(`Miscounts`) are excepted, because they do end too early (section 5). That a token once right stays right rests on
`EndsStay` and `NumbersStay`, since the text does not change.

### `TextProofs`

What the operators of `Texts` yield for every text, for the proofs about the components that
use them: where a character is found first, what splitting at it and joining again give
(`SplitJoined`: each undoes the other as long as no part has the separator in it), that `Keep`
keeps the chosen elements in their order, what a text costs, and that the parts of a text which
is put together are its parts taken together. All of these are recursive functions or folds: each
is first shown to satisfy its equation (`FlatteningExists` and its kin), and what is said of
all texts is shown by way of the shortest text it would fail for, as in `Sums`.

### `RequestProofs`

What the statements of one request write. `Accounted` is about `HeadersSpec` for any headers,
scopes, texts and limits. `AccountCoversHeaders` is not inductive: `std.collect` charges nothing
and replaces each line feed with a separator, so a header can grow after it was paid for. The
invariant `Covered` gives each paid header a pot (`Pot`): its cost in full, and for each of its line
feeds what a separator may add; the pots together are within what was charged. Every statement is
one of `Pays` (it writes a header and charges for what it writes) or `Frees` (it charges nothing and no
pot grows). Two hypotheses say what the code does not enforce: `ShortSeparators`, that no separator
is longer than what each `add` paid besides its text, since `std.collect` is not charged at all, and
`InboundFits`, that the headers a request comes in with are within the limit, since seeding charges
them without looking at it (`pipeline.ts:106`). `HeadersTypes` needs only `InboundFits`.

`SubfieldsKeptApart` needs no such hypothesis. That a subfield once set reads as set, and that the
others read as before, is what `DictGet` finds in the entries `DictSet` joins, for any keys and
texts (a value with a comma or a line feed would be two entries; the property leaves it out).

`VariablesKeptApart` is about `PredefinedSpec` for any operands and operators that can be written.
`PredefinedInv` says that each field holds what its variable was last set to, converted for its type
(`Faithful`), that `beresp.hipaa` has no field of its own (`Alias`), that `req.url`, which is kept as
the value it was set to, always reads as a text (`UrlKept`), and that the backend chosen
is the declared one last assigned (`ChosenKept`). With it go `ReadsBack`, that what is kept for a type reads as
the value that was set, and `UrlParts`, `FolderAndBase` and `Extension`, that the parts `resolveVariable`
cuts out of a URL make up the URL again, whatever it is.

`OthersReadAsBefore` is about `QuerySpec` for any URLs, values, patterns and byte order. A call parses
the URL, changes the list of parameters and writes it back, so the proof meets twice at the list.
`ItemsAgree`: what `querystring.get` finds among the parts of a query is what the list made of them
holds, because of several items of one name only the first has values (`FirstOnly`, which parsing
establishes; `Sort` does not keep it, and the next call parses anew). `TextTells`: the parts written
from a list tell what it holds (`Tale`), because values are escaped and names contain nothing that
is. Between the two, `CallsShift` says what each call does to the list. For `Sort` that is `FromIs`:
counting how many items go before or at a place numbers the places, as `Precedes` (`compareBytes`)
orders names without ties. The hypothesis is that the names given to `set`, `add` and the filters
contain no character an escape stands for: `set` writes a name `a=b` as it is, and it
reads as a name `a`. `OthersRead` itself says so of the names already in the URL.

### `Sums`

The laws the other proofs share: what sums over finite sets (`MapThenSumSet`) are when an
element is added or removed, for disjoint sets, and compared; and that a finite set of numbers
has a least and a largest element. The library's induction theorems take operators as
parameters, which the provers here cannot instantiate; `LeastSet` replaces them. If a fact
fails for some finite set, it fails for one of least size (`LeastNat`), of which every proper
subset satisfies it. What a fold computes is known through the function it chooses, and what is
to be shown of it is shown by way of a counterexample of least size.

### Only model-checked

- Liveness (`EveryRequestAnswered`, `Terminates` and the lexer's end), which is out of the
  prover's reach.
- `RoundTrip`, `WordsKept` and `SyntaxTypeOK` as a whole: `Parser` and `Printer` are recursive
  operators, which the prover cannot load.
- `AclLongest` and `BitsMove`, which compare networks and integers as numbers: their exponents
  (`^`) are nothing the provers compute with. `AclMostSpecificDecides` is the former byte by
  byte.
- `StatementsTypeOK` and the parser's part of `SyntaxTypeOK` are the components' types side by side.
  A local may hold the decimal digits of a number (`ToString`), of which the prover knows nothing, so
  that the types of `Locals` are out of reach. Those of the interpreter, the call limit, headers and the
  lexer are theorems of their components (`LoopsTyped`, `WalksTyped`, `HeadersTypes`,
  `TokenizeStaysInText`).

## 5. Where the code departs from its documentation

The seven violation runs, and, noted while reading:

- `error` in `vcl_hit`, `vcl_miss`, `vcl_pass` or `vcl_fetch` does not lead to
  `vcl_error`: `runPass` looks for that verb only in the result of `vcl_recv`
  (pipeline.ts:160, against 207); docs/reference/vcl-statements.md:261.
- A `goto` in a subroutine that was called jumps nowhere (vcl-compiler.ts:1999-2024);
  docs/goto.md:7.
- `beresp.backend` names the fallback even when the fallback failed and the first
  backend's response is delivered (index.ts:174-180, pipeline.ts:252-253; the comment
  at vcl-compiler.ts:156 says which backend answered).
- `docs` (troubleshooting, tutorial 01) say the value `vcl_deliver` returns is
  ignored; `restart` is honoured (pipeline.ts:300-306).
- `obj.hits` is set to 1 on a hit (pipeline.ts:176) and never reset, so after a hit
  that restarted, `vcl_deliver` of a fetched response reads a hit
  (docs/reference/vcl-subroutines.md:324 tests `obj.hits > 0`).
- `check_rate` counts in the window of whichever call made the counter, 60 s if that
  was `ratecounter_increment`; docs/reference/vcl-functions.md:604 says "within
  `window` seconds".
- The copies of the director table share the directors, so VCL that calls
  `std.director.add_backend` makes a director of all requests grow with each one.
- `select_backend` of a director with quorum 0 and no healthy backend throws rather
  than return null; in the fallback path this replaces the backend's 5xx by a 502.
- A 5xx from `main` is not retried while `main` is healthy: the first healthy backend
  of `fallback_director` is `main` itself (index.ts:92, 173), while tutorial 04, line
  324, has the proxy retry on any 5xx.
- `waf.rate_limit` with a window of zero computes 0 * Infinity and denies for ever
  after the first call of a millisecond.
- `vcl_miss` may `return(pass)` and the response is still stored.
- An `error` statement in `vcl_recv` runs `vcl_error`'s body once in the
  interpreter and once more in the pipeline.
- Arguments of a typed subroutine are evaluated twice (vcl-compiler.ts:2172,
  1943), so a typed subroutine called in an argument runs twice. What the second evaluation does
  to a local named like the parameter it is for is undone when the call ends (1938-1944).
- A later miss may be overwritten by the older answer of an earlier one; the code
  promises no order.
- Directors declared in VCL are filled before the backends exist
  (vcl-compiler.ts:938-945 against 972-1013).
- After a string or a comment over several lines columns are one too many: the
  newline sets the column to 1 and is then advanced over (`advanceTrackingLine`);
  docs/api/vcl-parser.md:156 shows such a column.
- A quoted string without an escape is crossed by code points and measured in UTF-16 units
  (vcl-parser.ts:740-747), so behind a character outside the basic plane the lexer stands
  before the closing quote and takes it for an opening one; the comment at line 734 has such a
  literal "taken verbatim", and the path for strings with escapes counts units.
- A block comment left open leaves its last character as a token.
- A run of operator characters is one token, so `+/*` opens no comment; `?` is no
  token at all, so the parser's `?:` branch is never taken; `default:break` is one
  identifier.
- `consume` takes any punctuation for `;`, `)` or `}`, while docs/troubleshooting.md:16-17
  lists missing semicolons and unbalanced braces among the syntax errors.
- The body of an `if` without braces goes on to an `else` or the end of the text, so
  inside a subroutine it is an error; so is a comment inside an expression.
- `add` takes any operator for `=`; `declare foo var.a T` ignores `foo`; in an ACL a
  comment after `!` loses the negation; in a table a minus before a word is dropped.
- `set req.request` and `set bereq.request` write a property nothing reads: reads of the
  aliases yield `method` (docs/reference/vcl-variables.md:108, 197).
- A compound operator on a predefined variable ignores its present value, except for
  five of them (`getTargetValue`): `set obj.ttl += 5s` sets it to 5 s
  (docs/reference/vcl-operators.md:348).
- `set beresp.do_esi` evaluates its expression twice, and a STRING local that holds
  "true" does not turn it on (vcl-compiler.ts:1693-1699).
- `set req.http.A:key` on a header of several lines reads the first line and writes all,
  so the line feed ends up inside a subfield.
- `header.set`, `header.unset`, `header.filter` and `std.collect` are not charged to the
  workspace, and the first three match names in any case, which statements do not
  (docs/api/http-object-model.md:83, 87).
- Locals are shared by all subroutines of a request, while
  docs/reference/vcl-variables.md:558 says "Available only within the subroutine where
  they are declared"; parameters are given back once the body has begun (and not if an argument
  throws, run `argument_throws`), `declare`d locals are not.
- The call limit does not count calls inside bare blocks, and under recursion a cost
  depends on the order of names.
- `std.acl.add_entry` accepts the exclusion of a network that is in the list; the first of the
  two then decides.
- `querystring` functions write names back decoded, so a name that held `%26` falls apart
  into two parameters; `sort` turns equal names round, so that a bare name before a valued
  one is lost by the next call that parses; `get` skips parameters without a name.
- Keys of counters are joined with colons, so an entry with colons (an IPv6 address) may
  meet another counter's key.
- Simulations that end in another order than they nest leave the platform of one that is
  over as the default one.

## 6. Not modelled

- Values: FLOAT, TIME and IP, formatting of numbers, comparisons by `<` and the like (JavaScript's
  own), groups of regular expressions beyond the text that matched, variables that
  nothing can set. Arguments may run typed subroutines in `Locals`, but any number of them, so that
  they are evaluated twice does not show.
- The function libraries: string, math, table, accept, address, binary, UTF-8, time and
  digest functions are pure, keep no state and order no events, and their data (strings,
  floating-point numbers, bytes) is what unit tests reach and TLC does not. ESI is text
  processing.
- Of the lexer and the parser: the values of tokens, locations of nodes, the raw text the
  parser keeps of subroutines, and branches for tokens the lexer never makes.
- `vcl-security.ts` is only initialised by the server, never called from VCL. Loaders,
  entry points, the playground's user interface and the test framework run no logic of their own.
