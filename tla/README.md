# Verification of strpp

TLA+ specifications of *strpp* (`src/`): of its concurrent and copy-on-write
core, of the regular expressions from the scanner to the matcher, and of the
parser for expression grammars. They are checked with TLC; the reference
counting, the threads, the arrays, the maps, the strings and the scanner are also
proved correct with TLAPS, for every value of the constants, and of the compiler
of regular expressions that it has room for its code and finds what it patches.

## 1. The system

| Component | Where | State | Operations | What makes it correct |
|---|---|---|---|---|
| Reference counting | `include/refcount.h` | atomic `ref_count` in each body, a plain pointer in each `Ref` | construct, assign, destroy, `Unshare`, read | counts are the references there are; a body is deleted once, after its last use; a body that is changed has one user |
| Array slices | `include/array.h` | `body`, `offset`, `num_elements` per variable; elements per body | slice, set, push, pull, insert, remove, ... | every variable behaves as a sequence of its own |
| Copy-on-write map | `include/cowmap.h` | `body` per variable, `std::map` per body | insert, remove, put, clear, iterate | every variable behaves as a map of its own; iterators stay valid |
| Strings | `include/strval.h` | slice, bookmark, lazily counted length of the body | index, search, insert, convert | as arrays; positions are characters; bookmarks and counts are never stale |
| Unicode coding | `include/char_encoding.h`, `src/char_encoding.cpp` | memos of digit tables | decode, encode, step back | `Backup` undoes `Get`; total on ill-formed text |
| Threads | `include/thread.h`, `src/thread.cpp` | map of threads, `ended_count`, `state` and `thread_id` per object | construct and `resume`, `run`, `joinAny`, `join`, delete | no lost wakeup; each thread is joined once, after its end; objects outlive their use |
| Latch, Condition | `include/lockfree.h`, `src/condition.cpp` | a mutex, a condition variable | enter, leave, wait, broadcast | mutual exclusion; waiters are released |
| Variant | `include/variant.h` | type and union | coerce | one value alive at a time |
| Pegexp, Peg | `include/pegexp.h`, `include/peg.h`, `include/peg_ast.h` | place in pattern and text, captures, failures, nested contexts | match, search, call a rule, capture, roll back | matches what the grammar says; keeps no capture of what it gave up; reports failures where they are |
| Regular expressions: scanner | `rx/rxcompile.cpp` (`scanRegex`) | offset, delayed literal | scan, with a callback for each token | tokens in the order of the text, nothing lost |
| Regular expressions: compiler | `rx/rxcompile.cpp` (`compile`) | counts of the first pass; code, stack of groups | read the tokens twice | the code is what the expression stands for and fits what was allocated |
| Regular expressions: matcher | `rx/rxmatch.cpp` | threads of this and the next character, with captures and counters | match, search | the leftmost longest match, within its bound on threads |
| Errors, formatting, pointer wrappers | `include/error.h`, `strformat.h`, `char_ptr.h`, `utf8_ptr.h` | little or none | | |

How they interact: `Array`, `StrVal` (an array of bytes), `CowMap`, `Variant`
and `Error` keep their data in bodies behind a `Ref`, and every operation that
changes one calls `Unshare` first. Threads share data only by copying such
variables; the atomic count is all that synchronises them. `Thread` uses one
static `Latch` for its map and one static `Condition` for `joinAny`. The
scanner of regular expressions calls the compiler back with each token, once in
each of two passes; the matcher reads the bytes the compiler emitted. A grammar
is a set of rules, each a pattern of `Pegexp`; the parser calls `Pegexp` for a
rule and `Pegexp` calls the parser back at `<rule>`, with a context for each
call.

Hard behaviour: several threads count, copy and drop references to one body at
once; `Unshare` decides on a single load of the count; a thread runs before its
creator has stored its id, and is deleted by whoever joins it; identifiers of
threads are reused; positions in slices, bodies and their bytes differ.
Characters are delayed until it is known that they are not repeated; offsets are
patched after code behind them was emitted, which moves it; two matching threads
meet at one station; an alternative that failed has captured something.
`PROJECT.json` lists these hazards line by line.

## 2. Modules

| Module | Models | About |
|---|---|---|
| `RefCount` | `refcount.h` | one step per access to an atomic count, any interleaving of threads |
| `CowValues` | (abstract) | variables that hold values; what `RefCount` implements |
| `RefCountProofs`, `ThreadsProofs`, `ArraysProofs`, `CowMapsProofs`, `StringsProofs` (with `Utf8`), `RxScanProofs`, `RxCompileProofs` | | the proofs about the module each is named for |
| `NatLemmas` | | induction over the natural numbers, for those proofs |
| `Threads` | `thread.h`, `thread.cpp`, and the uses they make of `Latch` and `Condition` | critical sections as steps, `pthread_*` as external |
| `ThreadPool` | (abstract) | the life of a thread object; what `Threads` implements |
| `Arrays` | `array.h` | one action per operation on slices and bodies |
| `ArrayValues` | (abstract) | the same operations on sequences |
| `CowMaps` | `cowmap.h` | one action per operation, and a loop with an iterator |
| `MapValues` | (abstract) | the same operations on functions |
| `Utf8` | stepping over text in `char_encoding.h`, `countChars` in `strval.h` | operators on sequences of bytes |
| `Strings` | `strval.h` | one action per operation on slices, bookmarks, and bodies with a count |
| `StringValues` | (abstract) | the same operations on sequences of characters |
| `RxScan` | `RxCompiler::scanRegex` and its helpers | one step per token or delayed character |
| `RxCompile` | `RxCompiler::compile` | one step per token in either pass |
| `RxProgram` | `RxProgram` of `rxmatch.cpp` | decodes the code; `RxCode`, the reference, makes the same instructions without addresses |
| `RxMatch` | `RxMatch::matchAt`, `addthread` | one step per thread and character; `Places`, the reference, is the set of places an expression matches |
| `Peg` | `pegexp.h`, `peg.h`, `peg_ast.h` | the matcher as recursive operators, a step for each attempt of a search |
| `PegGrammar` | (abstract) | what a grammar means, said of expressions and not of their text |
| `MC*` | | finite instances for TLC |

Definitions marked "(Mutant: ...)" in their comment are plausible mistakes in the
code. They are not used by any specification; put in place of the definition
they follow, each makes TLC find a property violated, which shows that the
property depends on what the code does there.

### RefCount

`ptr[v]` is `Ref::ptr`, `ref_count`, `data` and `heap` describe the bodies, and
`pc[t]` with the registers `var`, `other`, `o`, `old` stands for the operation
that thread `t` executes: `AssignNew` and `Assign` (the two `operator=`, and the
constructors when the variable is null), `AddRef`, `Store`, `Destroy`,
`Release`, `Decrement`, `Delete`, `Unshare`, `Copy`, `Mutate`. Between any two
steps of one thread the others may take theirs. The assertions of the code are
guards whose failure would stop the thread; `AssertionsHold` says they never do.

`Ref::ptr` is not atomic ("This does not need to be atomic, only the ref_count"),
so the model gives each variable an owner, who may pass it on (`Give`) or publish
it for all to copy and read. Without that rule the code has data races of the
program's own making. Self-assignment, assignment of null and the reuse of
addresses are included.

### Threads

A critical section of `thread_latch` is one step that needs the latch to be
free, except where the code does something in between that others can notice:
`resume` (`Resume`, `Create`, `Insert`) and `joinAny` (`JoinAny`, `Wait`,
`Wake`, `Take`). `waiting` is the condition variable. The program is that of
`test/thread_test.cpp`, generalised. Which program runs is the variable
`program`, chosen at the start among `Programs`: everybody in `Spawners` makes
threads, `AnyJoiners` call `joinAny`, `Joiners` join the threads they made by
name, and who has joined a thread deletes it, at once or, with `KeepsJoined`,
later. External: `pthread_create` picks any id that
is not in use (`FreeIds`), `pthread_join` returns after the thread's end and
frees the id, `pthread_cond_wait` may wake for no reason (`Spurious`). An object
is placed in memory where `state` is anything in `Garbage`, as the constructor
does not set it.

`MCThreads` names the programs. `Sound`, of the run, holds three:
two threads make threads and one calls `joinAny`; one makes threads and two call
`joinAny`; the main thread joins by name, in memory with any contents, and
deletes each object before it makes another thread. `JoinReturns` is about the
programs with at most one caller of `joinAny`. Put in place of `Sound`, others
show what goes wrong outside of it:

* `Test`, the program of `thread_test`: `joinAny` returns 0 while a thread is
  left, since it takes the last one for the main thread (`NoneMeansNoThreads`
  is violated);
* `Reusing`, in memory where threads have been: the constructor leaves `state`,
  and `joinAny` takes a thread that is running (`JoinedHaveEnded`);
* `Keeping`, which deletes a joined object later: the destructor then takes a newer
  thread with the same id out of the map (`CurrentFindsSelf`).

`SafePrograms` says in general which programs stay inside: any number of threads may
make threads and call `joinAny`, where `"Ended"` is not in `Garbage` (the constructor
leaves `state`, and `joinAny` believes it); and with `join` by name, one thread makes
and collects them all and deletes what it has joined before it makes another (a joined
object still has its id, which may be given out again). The theorems are about these
programs. Those of `Sound` and `Test` are among them; `Reusing`, `Keeping` and the
last one below are not, for they break the invariants.

Two more are seen in the same way. Of two callers of `joinAny` one waits for ever
when the other has taken the last thread, since the size of the map is looked at
only on entry (`thread.cpp:83`). And while `join` is between `pthread_join` and
the removal of the entry, a thread that a third one starts can be given the same
id, and is then not entered in the map (`CurrentFindsSelf`; see the hazard at
`thread.cpp:126`).

Not modelled: `Thread::exit`, which is declared `inline` in the header and
defined in `thread.cpp`, so no other file can call it; the Windows branch; a
failure of `pthread_create`, which the code ignores.

### Arrays

A variable is a record of `body`, `offset` and `num`; a body is the sequence of
its elements. Threads do not appear: by `RefCount`'s theorems the count is the
number of users, and what one thread does to its own variable others cannot see.
Capacity (`num_alloc`, `resize`) does not show in any result and is left out.
Memory suffices: there is a fresh address for a new body. An `ArrayIndex` counts the
elements of every body (`IndexSize > MaxBody`), which the code takes for granted.
The actions follow the paths of the code: `Insert` with its two shortcuts for
contiguous slices, `Remove` with its shortcuts for either end, `Unshare` copying
the slice's own elements. `push`, `insert` and `remove` hand the position in the
slice to the body without the offset, and do so in the model. Two defects at the
limits are left to the code's assertions: the model's program removes no more than
there is, because the assertion of `remove` (`array.h:196`) wraps and lets any
length through; and `SliceAsserts`, the guard of `Slice`, refuses parts that reach
the end of their body, as the assertion at `array.h:448` does.

A third defect has no assertion: `select` and `map` take `body->data()` without asking
whether there is a body (`array.h:387` and `:398`), and on an array that has none they
dereference null; so do `each`, `all`, `any`, `one`, `find`, `rfind`, `inject` and `bsearch`. An
array has no body when it was constructed by default, when a `slice` or a `select` that
found nothing made it (`array.h:122`), and when it is a copy of such a one; an array that
`pull`, `clear` or `remove` emptied, or that `map` made, has one. The program stops at such
a call, so `HasBody` is a guard of `Select` and `Map`, and nothing here says that they
can be called on every empty array. `SlicesInBodies` says that an array without a body
is empty: one with elements can be read.

`ByValue` is the correspondence with `ArrayValues`, operation by operation: it
says not only that the other variables keep their values but what becomes of
the one that is changed. It fails (`arrays_inner_slice`); `AlignedByValue`, which
excepts those three operations on a slice that begins inside a body it is the only
user of, holds, and so do `OthersUnaffected` and `SlicesInBodies`, without
exception. They say what operations that complete have done; which ones stop the
program instead is in the guards named above.

These do not compile when they are instantiated and have no behaviour: `unshift`,
`reverse`, `elem_ref`, `last_ref`, and `append`, `+` and `+=` with an array.
`a.insert(pos, a)` reads the elements while they are moved, or after they have been
freed; the model has no such call.

### CowMaps

A body is a partial function. `put` erases from the body it finds and calls `insert`,
which unshares; `Puts` lets the program call it where the body is shared and has the
key. A loop holds an iterator: the body and the key it is at, and no reference. The
program does not change the map it is looping over: it may not, because `Unshare` copies
nothing when the loop's map has the only reference to its body, and a `Remove` then
takes the entry from under the iterator (`IteratorValid` fails), although `cowmap.h:31`
promises a fresh body. `keys`, `values`, `each`, `all`, `any`, `one`, `select`, `map`
and `inject` treat the iterator as a pair and do not compile when instantiated.

### Strings

A variable is a slice, counted in characters, with a bookmark; a body is a text
and its number of characters, 0 while nobody has asked for it. `Utf8` represents
a byte by `UTF8CorrectLen` of it, all that stepping forward or back looks at.
`NthChar` is the code's, with its search forwards or backwards from the bookmark
or an end, and its arithmetic wraps as unsigned integers do: `copyBody` can leave
a bookmark below zero, which is harmless because it then lies beyond any character.
Each operation is one action, with the counting and the moving of bookmarks it
does on the way; operators pass the string in the middle of an operation from one
call to the next. Static bodies (`nullBody`, literals) have a reference more, so
they count as shared.

Beside the code runs what it promises: each action takes, in `val`, the step of
its namesake in `StringValues`. `ByValue` compares the two. `ReadsRight` says that
`operator[]` would give each variable's every character, through its bookmark as
it is now. Both fail for two kinds of programs, which `Avoids` excludes from the
run:

* `"parts"`: when a string is a part of a body that nobody else uses, `toLower`
  and its like convert the whole body and `insert` forgets the offset; without
  this exception `ByValue` is violated;
* `"marks"`: `insert` before the bookmark, and conversions other than
  `transform`, leave the bookmark where it was; without it `ReadsRight` is
  violated.

`Margin` is how far from either end a character must be to be marked, 3 in the
code and 0 in the runs, so that texts of four characters have bookmarks;
`IndexSize` stands for 2^32. `MaxBytes` bounds the bytes of all bodies that can change
and `MaxBody` those of one; texts are far smaller than what an index can count, which
keeps the bookmarks below zero apart from those that point into a text.

Left out: raw binary text, `operator*`, `operator+` with a character, searches and
comparisons, static text without a NUL, and `s.insert(n, s)`, which reads bytes while
they move.

### RxScan

A step is what the code does for one character of the text, up to the next: it
delays an ordinary character, or delivers the token of a special one after the
delayed literal. `Start` is told before the first. When the callback refuses
the delayed literal nothing more is done (`Refused`): neither the token that follows it
nor what the error would be is told. A token has, beside what the callback gets, the part of the text
it stands for, from which `InOrder`, `NothingLost` and `RepeatsOne` are stated.
The callback is `Refuses`; the run's is the first pass of the compiler, made to
refuse literals of three characters as well, so that flushes are refused too. Which
characters are special depends on the features; the five configurations of the run
are everything, everything with white space ignored, everything with shell
wildcards, a few features and others rejected.

What the code does here and a reader may not expect: with white space ignored `*` in `ab
*` repeats `ab`, for the blank flushes the delayed characters together (`RepeatsOne` is
about a repetition right behind the literal); `x{2}a,` is a bad count, as the search for
the comma goes on after the brace; `a{65536}` is `a*`, because counts are kept in 16
bits; rejecting `Capture` rejects `(?:` and `(?!` too; `ZeroOrOneQuest` is never looked
at; a backslash at the end is a NUL; numeric escapes accept white space and a sign
before their digits, which `asInt32` takes; after an error `error_offset` is that of the
last character.

`asInt32` gathers the digits in an `unsigned long` and returns an `int32_t`. `LongSize` and
`IntSize` are how many values these have: 2^64 (2^32 where a `long` has 32 bits) and 2^32 in the
code, 2^20 and 2^18 in the run, because TLC's own integers have 32 bits; five texts have
counts beyond one or the other. What does not fit in a `long` is an error; what fits there
but not in an `int32_t` is cut off without one, although `strval.h:754` announces it:
`a{4294967298}` is `a{2}`. No property is about the value of a number, and the theorems hold for
every width.

### RxCompile, RxProgram and RxMatch

`RxCompile` reads any sequence of tokens that `MayScan` allows, and so chooses the
expression as it goes. The first pass counts; the second emits cells, one for each byte,
reserves the widest place where an offset is not known yet, and moves the code behind it
when it is patched. `OneByte`, 128 in the code, is 24 in the runs, so that offsets of
one and of two bytes appear in short expressions. `RxProgram` decodes the cells as the
matcher does. `CodeIsRight` compares the instructions reached, offsets followed, with
`RxCode`, which is made of the tokens alone. `FixupFindsAll` is about
`fixup_alternates`, whose loop walks back over the Jumps of a group by the offsets it
is about to patch: each turn finds a Jump and the Split of the alternate before it, as
its assertions say, and it ends. `Fixed[k]` is what `k` turns come to.

What is emitted, and its unpatched state at any time, is to fit what was allocated.
Three properties speak of it:

* `CodeFits` is the assertion of line 1109. It fails where offsets take
  another width than the one the allocation was computed with, which forgets that they
  are signed: for 54 to 106 `^` the buffer is a byte short (`Tokens <- Lines`,
  `MayScan <- UpToMaxTokens`, `MaxTokens = 54` and the real widths, 128 and 2048, show it).
* `MaximumSize` is the maximum that the comment of line 734 gives. It fails
  where the number of stations, which is written like an offset and counted as one, is
  wider than an offset: a repetition adds its count to it and nothing to the code. For
  `.{254}` it is one byte more (`Tokens <- Counted254`, `MaxRepetition = 254`).
* `RoomForCode` is the first, with both excepted; it holds.

An offset of three bytes fails an assertion of the matcher (`rxmatch.cpp:252`).

A fourth defect needs two limits of the coding to meet: an offset that is reserved
with three bytes, needs two when it is measured, and one after it was reduced by the byte
that was saved (`rx_crossing`). The real widths have such expressions, those of the run
`rx` do not. The compiled program agrees: `(a...a.)?` with 30 `a`, before 600 `b`, does not
match the text it should, and with a byte more or less in the group it does.

`RxMatch` runs the code. `addthread` is a recursive operator, `current` and
`next` are the lists of threads; results are values, since sharing them is
`RefCount`'s subject. After a lookahead the thread goes on with a count of
repetitions that was never set, which may be any of `Garbage`. `MatchesRight` compares the
result with the leftmost longest of `Places`, and excepts what the code gets
wrong or does not promise:

* named groups: `CaptureEnd` ends the thread of the group (`rxmatch.cpp:396-400`);
* a lookahead with `^`, `$` or another lookahead: it moves the offset its thread
  goes on with;
* counts over more than a character: threads with different counts at one station
  are taken for duplicates.

`NoFault` says that no assertion of the matcher fails, and excepts empty
alternates: `first_pass` adds a station for the first `|` only ("REVISIT: Audit
station_count estimates", `rxcompile.cpp:672`), and `|||` has more threads than stations, so
that the assertion of `rxmatch.cpp:464` fails (`StationsSuffice` is violated).

### Peg

The matcher interprets the text of a pattern where it stands; the operators follow
the functions of `pegexp.h`, each taking and returning a record of the place in
the pattern, the place in the text, what was captured and what failed. A context
is a call of a rule: its rule, where it began, who called it. `Attempt` is a whole
`match_here`; `Found`, `MoveOn` and `GiveUp` make it a search or a parse.

`PegGrammar` says what an expression means: the end of its match, and the
captures on the way. `Pattern` writes an expression as text for `Peg` to read.
`MatchesAsPeg` and `CapturesAsParsed` compare the two. The exceptions, each a
place where the code does something else:

* `AllSkipsRight`: a repetition or a list of alternates as the operand of an
  operator is not skipped as a whole (`peg_skip`);
* `odd`: what fails has captured something, and so has what came before it:
  captures can be rolled back to none only, and are all kept with a complaint
  (`peg_ast.h:182-192`); or an atom is labelled that follows a
  capture, and the label gets all the captures there are instead of its text
  (`LabelsTakeText` says the contrary, and is violated);
* `CapturesClear`: `is_captured` accepts a name that begins with one of the labels;
* `NamesClear`: a rule whose name continues another's with a digit sorts on the
  wrong side of it, and the binary search does not find it (`SearchWorks` says
  that it does, and is violated).

`Erased` is the early erase of `CowMap::put`, here on a body that a captured value
shares.

Left out: "`" and patterns that end in `\`, `\x{`, `&` or `!`, where the code reads
behind the pattern; characters of several bytes. `PegContextNoCapture` does not
compile when it is instantiated, as its `match_failure` has another signature.

### Comparison with the compiled code

`RxScan` and `Peg` are functions of their input, so they were also compared with
the program: the compiled scanner gave the same tokens, results and errors as
the model in each of 63,790 cases (a text and a configuration), and the compiled
parser the same result, end, furthest place, failures and tree in each of 121,716
(a grammar, a text, and parse or search).

## 3. Runs

| Run | Bounds | Shows |
|---|---|---|
| `refcount` | 3 threads, 3 variables, 4 addresses, 2 values; symmetric | exact counts, no use after free, no leak, no double delete, changes are exclusive, by-value semantics |
| `threads` | 3 threads and main, 3 ids, the 3 programs of `Sound` | joining with `joinAny` and by name, ids reused: exact count, no lost wakeup, no use of deleted objects, the life of a thread, and that joining returns |
| `arrays` | 2 arrays of at most 3 elements of 2 values, 3 bodies of at most 3 elements and a static one; symmetric | every operation that completes does what it does to a sequence, no operation reaches another array, no slice leaves its body |
| `cow_maps` | 3 maps, 2 keys, 2 values, 4 bodies; symmetric | every operation does what it does to a map; iterators stay valid |
| `rx` | expressions of at most 4 tokens of 15 (3 of 12 when matched, in texts of at most 3 of 2 characters), and 12 longer ones; 1.4 million states | the code is right and has room, and chained Jumps are found; a match is the leftmost and longest; no assertion of the matcher fails |
| `rx_scan` | texts of at most 3 of 23 characters and 42 longer ones, 5 configurations; 280,000 states | tokens are in order, nothing is lost, a repetition is of one character |
| `peg` | expressions of 2 and 3 items, grammars of several rules, 21 texts of at most 3 characters, parse and search; 442,000 states | matches and captures are what the grammar means; rules are found; failures are where they are said to be |
| `strings` | 2 strings, 3 addresses, the null body and a static one; characters of 1 and 2 bytes, at most 5 bytes in all; symmetric | every operation does what it does to a sequence of characters, bookmarks lead to the right character, counts are exact |

Three threads are needed in `refcount` for two to be in the middle of operations
on a body while a third publishes or receives a reference to it; four addresses
let a body be freed, and its address reused, while all variables hold one.
In `threads` one thread can have ended, another be running under a reused id
and a third be starting while the main thread joins. In `arrays` three
elements are the fewest with a middle to insert in, remove or slice; two arrays
share a body, have one each, or refer to the static one. The elements are
constructed from a few sequences (`Inputs`); the rest are reached by `Set` and
`Push`. In `strings` five bytes make texts of up to four characters whose byte and
character numbers differ, with a bookmark nearer to either end, and let a
conversion lengthen or shorten what precedes it. In `rx` four tokens make a
group with a repetition, two alternates or a nested group; what needs more
(repeated groups within groups, alternates of different lengths under a count) is
among the longer expressions, and `RxMaxNesting` nested groups reach the limit of
the stack. Texts of three of two characters, and two with ends of lines, tell the
longest match from others and a restart from a continued thread. In `rx_scan`
three characters hold every pair of features next to a third; whole counts,
groups, classes and escapes are among the longer texts. In `peg` two items of
every kind, three of those that take other expressions, and grammars with left
recursion, several labels, a rule called from two places and rules named alike
make captures appear in what is tried, given up and tried again.

Runs that end in a violation, each a disagreement of the code with its own
comments (see `findings` in `PROJECT.json`):

| Run | What TLC finds |
|---|---|
| `arrays_inner_slice` | `push`, `insert`, `remove` forget the offset of a slice in a body of its own |
| `cow_maps_put` | `put` erases the key from the maps that share the body |
| `rx_crossing` | an optional group of 61 bytes, in more than 1024, is skipped to one byte before its end |
| `peg_skip` | a skipped repetition or list of alternates is not skipped as a whole, and the rest of it is matched again |

### Fairness

Only `JoinReturns` needs it, in `Threads!FairSpec`. Every thread that can take
its next step does so eventually (the scheduler runs all threads), and `run()`
returns. The fairness of steps is strong because they include taking the
latch: a caller of `joinAny` that is woken spuriously over and over takes the
latch each time, and weak fairness would let it pass over a thread that waits
in `resume` for ever. This asks of the mutex that it does not starve a waiter.
No fairness is assumed of what the program chooses to do, nor of `Spurious`.

## 4. Proofs

Each of these holds for every value of the constants that satisfies the module's
assumption. `Invariance`, in every module about a state machine, is the inductive
invariant; the others follow from it. TLC checks the same properties on the instances of section 3, but for `TypeOK` of `Threads`.

| Module | Theorems | About |
|---|---|---|
| `RefCountProofs` | `TypeCorrect`, `CountsAreReferences`, `NoUseAfterFreeEver`, `NoLeakEver`, `ExclusiveMutationEver`, `AssertionsHoldEver`, `AssignmentsCopy`, `Refinement` | all properties of the run `refcount`; `RefCount` implements `CowValues` |
| `ThreadsProofs` | `TypeCorrect`, `CountIsExact`, `WakeupsArrive`, `NoUseAfterDeleteEver`, `DeletedOnceEver`, `CurrentFindsSelfEver`, `JoinedHaveEndedEver`, `LifecycleEver` | all properties of `threads` but liveness; `Threads` implements `ThreadPool` |
| `ArraysProofs` | `TypeCorrect`, `SlicesStayInBodies`, `OthersAreUnaffected`, `AlignedSlicesAreValues` | all properties of `arrays`; operations are those of `ArrayValues` |
| `CowMapsProofs` | `TypeCorrect`, `IteratorsStayValid`, `LoopsSeeOneMap`, `MapsAreValues` | all properties of `cow_maps`; `CowMaps` implements `MapValues` |
| `StringsProofs` | `CharactersFound`, `StepsAgree`, `TypeCorrect`, `ValuesKept`, `ReadsAreRight`, `CountsAreExact` | stepping over texts of any length; all properties of `strings` |
| `RxScanProofs` | `TokensInOrder`, `AllIsTold`, `OneIsRepeated` | all properties of `rx_scan` |
| `RxCompileProofs` | `AlternatesAreFound`, `CodeHasRoom`, `CompiledSize`, `MaximumIsKept` | `FixupFindsAll` and `RoomForCode` of `rx`; how long the code can get |

### RefCount

None of the invariants is inductive alone. That a body is not freed under a
thread depends on the counts being exact, and that depends on no count being
touched after its body was freed. `IInv` conjoins the invariants with what the
registers hold at each location and with the facts about single references: a
thread in `AddRef` holds a new body that nobody else knows, or copies from a
variable that keeps its operand alive; a thread in `Mutate` has the only
reference to its body, since nobody can gain a reference except by copying from
a variable he may read, and the only such variable is its own. There is a lemma for
each action; cardinalities of `Holders` change by one element at a time, and lemmas
about adding and removing one element carry the arithmetic. Assumed: the sets of
threads and variables are finite.

### Threads

Any number of objects, a finite set of identifiers, and a program of
`SafePrograms`, a condition on the program and not on the library. `IInv` has
a part for each kind of thing that must stay in step:

* `RoleInv`: who holds the latch, who has an object in hand, and that no two have
  the same;
* `ObjectInv`, `ArgInv`: object, system thread and identifier agree, and what each
  operation may take for granted of its object at each location;
* `IdInv`: threads that the system still knows have different identifiers;
* `JoinInv`: while an object that was joined by name is left, nobody makes a thread;
* `MapInv`: an object is in the map, under its own identifier, from the end of
  `resume` until it is taken out;
* `EndedCountExact`, `NoLostWakeup`.

The count depends on the map: `Take` and `End` change `Findable`, the entries that
`joinAny` could take, by one element, but only because no other object is
registered under the same identifier, which is `MapInv`, which depends on
`IdInv` when an identifier is reused, and on `JoinInv` when a joined object still
bears it. `LifecycleEver` maps each step to one of `ThreadPool` or a stutter, with a
lemma for each step that changes `Lives`.

### Arrays

`IInv` says that variables have their types, slices lie in their bodies and bodies
are shorter than `IndexSize`. `Changes(v, s)` is what an operation comes to: `IInv`
again, `s` in `v`, and everything else as before. `UnshareIsOwn` gives the body
that is changed one user, so `StoreChanges` and its like follow for every
operation. Positions are the work: `InsertPart` and `RemovePart` say what becomes of a
slice of a body when something is inserted into or removed from the body, and
`AdjacentSlices` is why the shortcut of `insert` for contiguous slices may widen the
slice. `select` is a loop, and `SelectsMore` is its induction. `OperationsAsSequences`
compares each operation with its namesake in `ArrayValues`, `select` and `map` where
`HasBody` lets them complete. Assumed: `Vars` is
finite, memory suffices, and the indexes have the width the bounds need.

### CowMaps

`IInv` is `TypeOK` and `LoopInv`: the variable that is looped over keeps its body, and
the body the entry the iterator is at. That an iterator, which holds no reference,
stays valid depends on `Unshare` copying whatever has a second user, so that
`OnlyChanges(v, m)` holds of every operation: the entries of a body that another
variable uses never change. `InsertedIsPrefix` says what the constructor's loop
puts into a map, by induction on the list. `~ Puts` is the hypothesis: without it
`put` breaks the claims, as the run `cow_maps_put` shows.

### Utf8 and Strings

The first part of `StringsProofs` is about texts that are spelled by characters of one to six bytes.
`Offsets(s)` are the sums of the lengths of the characters of `s`; `Spells(t, s, f)` says
that the bytes of each character are in `t` where `f` has it. Stepping over
`Encode(s)` goes from offset to offset in both directions (`UTF8LenIs`,
`UTF8BackupIs`), so that `Starts` are the offsets and `Chars` the characters, and
parts and joins of sequences of characters are parts and joins of their texts
(`EncodePart`, `EncodeJoin`).

`IInv` of `StringsProofs` says that texts are well-formed, slices lie in them, a body
has its count or none, and a bookmark is one of three: none, the start of a character of the
slice, or negative in both numbers, which only a string that begins with its body has
(`MarkIn`). From it `SearchIs` follows: from any such bookmark, in either direction,
with wrapping arithmetic, the search arrives at the start of the nth character. A
negative bookmark is harmless because it is beyond every character, which needs
that texts are shorter than a quarter of what an index can count. `copyBody` turns
the bookmark of a slice into either kind (`MarkCopied`). An empty slice has an empty
body, because the length 0 means `strlen` to the constructor of bodies.

`Holds(x, q)` says this of a string `x` in the middle of an operation that holds the
characters `q`; each step inside an operation keeps it (`NthIs`, `BytesIs`,
`CopyBodyIs`), and `BecomeIs` leads from it to the next state if the other strings
find their texts unchanged, which `UnshareIs` provides for what changes a text.
`SpliceIs` is insertion: bytes inserted at the start of a character are characters
inserted, and the bookmark, not being behind, stays right; `RewriteIs` is
conversion. The hypothesis `Avoids = {"parts", "marks"}` is what the run `strings` has; the two
kinds of programs it excludes break the claims. Assumed besides: `Vars` is
finite, the letters are well-formed, and an address that no string uses is left.

### RxScan

For expressions of any length, over any characters, with any set of features and any
callback. The invariant is about what the loop changes: the parts of the text that the
tokens stand for follow each other, what is delayed follows them, none reaches
beyond the next character, and all that is before it was told, is delayed, or is
ignored (`Covered`). It is stated of the record `m` that a turn of the loop makes
of `Now`, so that `DeliverGood`, `FlushGood` and `AddGood` are proved once and every
action is their composition; `Covered` does not survive a refusal or an error, and
need not, since nothing is accepted then. Lemmas about `Find`, `AsInt` and the loop
of a class bound how far each turn goes: the offset grows, and the search for
the end of a count, a name or a property finds what it says. `RepeatsOne` rests on
`Told`: a literal of several characters is never right before a repeater. Assumed:
white space is not special, digits have values, and the sizes of the integers are
natural numbers.

### RxCompile

For any tokens, expressions of any length and nesting, and any `OneByte` and `TwoBytes`:
the proofs use only that a number takes one to three bytes, and a greater one no
fewer. Numbers of four bytes, in code beyond 32 kilobytes, are outside of the model. The two
passes meet only in the tokens, so the invariant has to say, in the
second, what the first has made of each beginning of the expression. It keeps a history
`h`, in a quantifier and not in a variable: `h[k]` holds the groups that are open after `k`
tokens, and the bytes and offsets that these tokens may take in the code (`Trace`). In
the first pass (`Scanning`) the counts are at least those of the last moment. In the second
(`Running`):

* the open groups are those of `h[at]`, and the code is no longer than `Size(nb, h[at])`:
  the header, the names, and all offsets of the moment at their widest;
* every open group has its places (`GroupFits`): it begins before its contents, which
  begin before its last Jump, and the groups above it lie behind that (`Stacked`);
* the Jumps of a group form a chain (`Chained`): a sequence of places, each holding a
  Jump whose offset leads to the one before, with a Split where the alternate begins;
* what a repetition would repeat lies behind the last Jump of the innermost group, so
  inserting a Split there moves nothing that is linked.

A token changes the code behind `Floor`, the end of the last Jump, or appends to it:
`Agree(c, d, n)` says that two codes have the same first `n` cells, and `LinkKept`
that the links below `n` survive. `PatchIs`, `SplicesTo` and their like say for each way
of patching and inserting where every cell goes and how long the result is. `FixupTurn` is
proved to keep `Turned`: after `k` turns the first Jumps are as they were and the next one is
known, so the loop ends after as many turns as there are Jumps, which are no more
than the tokens. That patching moves the code behind it does no harm, because it goes
backwards. Each patch can only shorten the code: an offset that is patched is less than
`Room`, the length of the code with every offset at its widest, and the width that is
reserved is one for which `Zigzag` of that fits (`WidthIs`).

`CompiledSize` bounds the excess: `MaximumSize` can be missed by the bytes by which
the number of stations is wider than an offset, and by no more. `CodeHasRoom` has the two
hypotheses of `RoomForCode` in its statement; `^` 54 times and `.{254}` show that neither can
be left out.

### Induction

The provers have no induction over data. `NatLemmas` has what the proofs need of it in a
form they can use, about sets: `NaturalsByInduction` says that a set with 0, and
with each number its successor, is `Nat`; the induction hypothesis becomes the set of
the numbers it holds for. It follows from the library's theorem that `<` on `Nat` is
well-founded. `FollowingExists` gives the functions that the model defines by
recursion on an interval (the value of digits, the constructor of a map, `select`,
the loop of a class, the offsets of a text) the equations they are defined by.

### What the proofs found

That an invariant is inductive says more than that it holds in a run, and two faults of
the models came to light when a step could not be proved. The life of an object was a
`CASE` whose conditions overlap, which has no definite value where they do; it is now
a sequence of conditions. And the scanner's model told the token after a literal
that the callback had refused, which the code does not. Two preconditions were
implicit and now have names: `SafePrograms`, and the assumption that an `ArrayIndex`
can count what a body holds. A third was too weak: that the letters of `Strings` are
well-formed characters, of which the model had only said that they are not empty.

Two defects of the compiler were found by proving it. `RoomForCode`, which holds in all
expressions of the run `rx`, was false: its first form excepted only the expressions with
two widths of offsets, and the induction left the bytes of the number of stations
unaccounted for, which led to `.{254}` (`MaximumSize`). And the lemma that a patched
offset leads where it was told to could not be proved, because the width is taken before
the offset is reduced; what is left of it, `PatchIs`, gives the place and the size and an
upper bound of the offset, and `rx_crossing` shows that no more is true.

### Only model-checked

* `JoinReturns`: liveness, and with it fairness, is beyond the prover.
* `CodeIsRight`: it is false where an offset crosses a limit of the coding (`rx_crossing`),
  so no theorem can state it. For the widths of the run it compares what the decoder and
  the reference compute, each by recursion over code and tokens.
* `MatchesRight`, `NoFault` of `RxMatch`, and `MatchesAsPeg`, `CapturesAsParsed`, `LookupFinds`,
  `FailuresThere` of `Peg`: the matcher follows the code, and the parser the pattern, by
  RECURSIVE operators over threads, places and nested calls, for which the provers have no
  induction; and the properties compare them with another such recursion.
* The runs that end in a violation, of course.

## 5. Plan

1. (done) `RefCount`, `Threads`, `Arrays`, `CowMaps`, `Strings` with `Utf8`.
2. (done) Matching: `RxScan`, `RxCompile`, `RxProgram`, `RxMatch` against
   definitions of code and of matching; `PegGrammar` and `Peg` with left recursion
   and rollback of captures.
3. (done) Proofs: the safety properties and refinements of `RefCount`, `Threads`,
   `Arrays`, `CowMaps`, `Strings` and `RxScan`; the sizes and the chained Jumps of
   `RxCompile`.
4. With a `patch_offset` that takes the width of the offset it writes, `CodeIsRight` could be
   proved from the same invariant. The rest of the strings: searches and comparisons, `asInt32` against a
   definition of the numbers, the lazy count under two threads; the boundaries of ill-formed
   UTF-8 in both directions, the memo of `UCS4Digit`; `Latch` construction; `Variant`
   coercions; the searches of `Array`.

Bounds for the planned runs are of the same kind: two or three variables or
threads, texts of three or four characters of mixed width.

## 6. Not modelled

Case tables, formatting, printing (`rxdump.cpp`), the railroad-diagram scripts
and the test scaffolding hold no logic worth a state machine. The branches of
`lockfree.h`, `condition.cpp` and `thread.h` for Windows do not compile in this
tree. Contents beyond 2^31 references or 2^32 elements are outside the bounds
of every instance.
