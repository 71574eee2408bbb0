# A verification development for ush

Specifications in TLA+ of `ush`, the micro-shell, and its library `libush`: a
C function, `ush_argv()`, that carries out a list of preparations (change
directory, redirect, set the environment, close descriptors) and then runs a
program, with `fork()` and `wait()` or in place of the calling process.

## The system

### Components

| part | source | state it keeps | operations |
|---|---|---|---|
| option loop and driver | `libush/ush.c` | the static `cmd`, `opt_command`, `replace`, `script_encoding`, `opt_append_argv`, error stream | `ush()`, `ush_argv()`, `ush_getopt()` |
| preparations | `libush/cmd-chdir.c`, `cmd-env.c`, `cmd-umask.c`, `io-redirect.c` | none of its own: cwd, umask, environment, descriptors of the process; `cmd->ioerr` | one function an option |
| close-from | `libcscript/close-from.c` | none | `close_from()`, by `/proc/self/fd` or by number |
| scripts | `libush/run-interpret.c` | the line buffer, the argument vector, and the static `replace`, `opt_append_argv` of ush.c | `run_interpret_xfname()`, `run_interpret_linebuf()` |
| running | `libush/run-program.c` | `cmd->child`, `child_status`, `rc` | `run_program()` |
| line reader | `libcscript/sgl-getline.c` | a scatter/gather list of segments | `sgl_fgetline()` |
| string vector | `libcscript/strv.c` | a growing array of strings | `strv_alloc()`, `strv_free_strings()`, `strv_free()` |
| decoders | `libcscript/qp-decode-str.c`, `xnn-decode-str.c` | none | decode in place |
| getopt | `libcscript/cs-getopt.c` | `struct _getopt_data`: `optind`, `nextchar`, the range of skipped words; it permutes the vector | `cs_getopt_internal_r()`, one option a call |
| error stream | `libcscript/set-print-fh.c`, `error-message.c` | `errprint_fh` | `set_print_fh()` |
| error reports, printing | the rest of `libcscript` | none | |

`ush_argv()` calls `ush_getopt()`, which calls one preparation an option;
then `run_program()` (with `--command`) or `run_interpret_xfname()`, which
reads lines, calls `ush_getopt()` on each that is an option, and ends in
`run_program()` as well.

All of it is one thread, but not alone: the program it starts is another
process, the calling process may have other children and signal handlers,
other processes work in the same directories, and as a library it is called
several times by one process, while its state is static.


### What is hard

* **Processes.** `wait()` returns any child of the caller; a child that fails
  to `exec()` runs the caller's code; a program need not end.
* **Partial failure.** A redirection is three or four system calls, each of
  which may fail, and the loop over the options goes on after a failure: what
  was done so far stays, and yet nothing may be run.
* **Boundaries of tables.** Descriptors: `open()` returns the lowest free one,
  which may be the one to be redirected; the table may be full; the directory
  that lists the descriptors has one itself. Pages and segments of the line
  reader: a line may end on either boundary.
* **State that outlives a call.** `cmd`, `opt_command`, `ioerr`, `replace`, `opt_append_argv`
  are static; what getopt has recorded of a vector is there when it is scanned again.
* **Permuting in place.** getopt moves words behind options while it reads the
  vector, segment by segment, and a caller may look at the vector at any time.
* **Aliasing.** The decoders work in place; `putenv()` and `--replace` keep pointers
  into the line buffer.
* **Other actors.** Other processes create files between `access()` and
  `open()`; the caller has other children and signal handlers.

Nothing here is persistent and nothing runs in threads, so there is no crash
recovery and no locking to model.

### What makes each part correct

| part | properties |
|---|---|
| running | a forking call returns the status of its own child, leaves none behind, makes no failure up, and hangs only while the program runs |
| redirection | atomic as seen on the standard descriptors, or refused; no other descriptor changes, but for the one a failing `dup2()` leaves open; `-new` spares old files |
| close-from | success means that everything from the argument on is closed, failure that the walk has stopped at the first `close()` that failed; below the argument nothing changes; the walk ends |
| option loop | the program is started only if all options succeeded, with what they prepared, in their order; the status is the program's |
| scripts | the same, and the script's descriptor is closed again; the argument vector is the promised one, no slot beyond the capacity is written, every string is freed once |
| getopt | a scan returns what the comments promise whatever is permuted; nothing beyond the vector is touched; an exchange moves words and options without loss |
| option values | `--umask`, `--env` mean what they say, the last word counts, and nothing behind the first word is taken for an option |
| line reader | a line arrives as it is in the file; the buffer is large enough |
| decoders | the unread part of the buffer is intact; the result is what the string decodes to |

## The modules

| module | models | proofs |
|---|---|---|
| `FdTable` | a descriptor table: `open`, `dup2`, `close` | |
| `RedirectSpec` | abstract: a request is bound or refused, in one step | |
| `IoRedirect` | `set_stdin()`, `set_write_fd()`, a system call a step, in several processes | `IoRedirect_proofs` |
| `CloseFrom` | `ush_close_from()`, `close_from()` and its two walks | `CloseFrom_proofs` |
| `RunProgram` | `run_program()`, `exec_program()`, `run_child_program()`, `wait_cmd()` and the children | `RunProgram_proofs` |
| `Launcher` | abstract: what README promises of a call | |
| `Ush` | `ush_argv()`, `ush_getopt()`, the handlers, the course of a script; contains `RunProgram` | `Ush_proofs` |
| `Getopt` | `cs_getopt_internal_r()` with `exchange()`, as a process of calls | `Getopt_proofs` |
| `UshGetopt` | the loop of `ush_getopt()` with its table and the parsers of option values, on top of `Getopt` | `Getopt_proofs` |
| `Script` | `run_interpret_linebuf()` with the string vector of strv.c | `Script_proofs` |
| `Sgl` | `sgl_fgetline()` and its list of pages | `Reader_proofs` |
| `Decode` | `xnn_decode_str()`, `qp_decode_str()` in place | `Reader_proofs` |
| `Reader` | `fgetline()`: composes `Sgl` and `Decode` | `Reader_proofs` |
| `SeqLemmas` | no code: lemmas on sequences and on recursive functions, for the proofs | |
| `MC…` | the instances that TLC checks | |

`Ush`, `UshGetopt` and `Script` look at one program from three sides. `Ush` has what
options do to processes and when a program is started, and lets an option be any
option with any outcome. `UshGetopt` has which options a vector means. `Script` has which
arguments a script means, and lets options only succeed or fail.

### RunProgram

`pc` is where the calling process is, `kid` the life of each child (`unborn`,
`copy` of the caller, `program`, `zombie`, `reaped`), `wstatus` the word that
`wait()` will deliver. `cmd_fork`, `child`, `child_status`, `rc` are the fields
of `cmd_t`. Pid and number of a call coincide. A wait status is an integer and is
taken apart by arithmetic, as the macros do, since the code also applies them
to values that are none. `Fork`/`ForkFails` are the two results of `fork()` (both
lead to `wait_cmd()`, as -1 is not 0), `WaitReaps`, `WaitHasNoChild` and
`WaitInterrupted` those of `wait()`, whose result the code ignores. `ChildExecs` and
`ChildExecFails` are steps of our own code in the child, `ProgramExits` and
`Killed` of the program.

### FdTable, IoRedirect, RedirectSpec

A table is a function from descriptors to what they are open on. In `IoRedirect`
each process goes through `access`, `open`, `dup2`, `close`; a step is a system
call with the code up to the next one. `files` is shared, so other processes
act in between. `ret` and `ioerr` are what the function returns and records.
The refinement maps the standard descriptors and whether the request has been
reported; a request takes effect at its `dup2()`.

### CloseFrom

The argument goes through `atoi()` with its wrap-around (`ToInt`). `CloseFirst` is
the `close(fd_lo++)` that makes room for `opendir()`; then either the directory is
read entry by entry (`SkipEntry`, `CloseEntry`) while the table it lists shrinks,
or all numbers below the hard limit are tried (`Scan`). `faulty` are descriptors
whose `close()` reports an error (and closes all the same); the first of them ends the walk.

### Ush and Launcher

`attr` is what a program inherits: directory, mask, environment, descriptors.
Each option is an action, enabled while the loop of `ush_getopt()` reads the
arguments (`at = "options"`) or a script (`at = "lines"`); the redirection and
`--close-from` appear here as wholes, since their inner steps are the subject of the
other modules. An option may fail with its effect (`--umask`, see below), without it, or
with a part of it: when `dup2()` fails, the descriptor of `open()` stays open
(`OptDupFails`), and when a `close()` fails, `--close-from` has closed the
descriptors up to that one (`OptCloseFromFails`, which also has the walk that cannot even
begin). Then come the ways `ush_argv()` goes on: exits with 1 or 2,
`RunCommand`, `OpenScript`. `Running` takes the steps of `RunProgram`, included by
`INSTANCE` on variables of the same names. `cmd_fork`, `opt_command` and `ioerr` are
not reset by `Enter`, for they are static. `given` records what the program got.
`Launcher` is the promise: preparations in any order, a start only if none has
failed, with exactly the attributes prepared (one descriptor more is allowed: the
script's, which is opened without close-on-exec). It is that of a process which goes on from
call to call: what a failing option has left half done (`HalfDone`) is there for the next call and its
program. It promises less than README in one respect: a variable that a script sets may be `Lost`
(see below).

### Getopt

An argument is a sequence of `Tokens`: `-`, `=`, letters of short options, syllables
of long ones, which is as fine as the parser takes them apart. `conf` is the caller's table
(`optstring`, `longopts`, `long_only`, `POSIXLY_CORRECT`). The variables are the fields of
`struct _getopt_data` and the locals of `exchange()`. A call is `Call`, `Advance`, `Settle` (the
bookkeeping of skipped words in front of the next element), `Skip`, one action for each
kind of element, and the two turns of the loop of `exchange()` wherever words are
moved. A caller that got the end may scan the vector again with `optind` 0 or 1
(`Rescan`). `original`, `before`, `parsed` are history. `lost` is set where an ambiguous `-W`
increments `optind` twice: an argument is skipped, or `optind` passes `argc`, and what a
further call would read is undefined; the model makes none.

### UshGetopt

The table is `long_options[]`, with names cut into syllables where abbreviations
differ, and "+hVdvc". `Ask` is the call, `Parse` the steps of `Getopt`, then one action
carries out what was returned and the loop goes on. `parse_umask()`
is a fold over the text whose accumulator is the state of its loops (`Turn`). A redirection,
`--chdir` and `--close-from` are recorded in `done`; which arguments they fail with is a
constant (`Unusable`). `asked` is history: what the vector means when read as a
whole, computed once at the start.

### Script

A line is a string whose kind is a constant (`Comments`, `Meaning`). `pc` goes from the
options (`lines`) to the arguments (`args`), `append`, `seal` (the `NULL` at the end), `run`,
`free`. `strv` has a slot for each element of its capacity, `Lost` where nothing was
written; `strc` is `sv_strc`. `Push` is `strv_alloc()` with what is stored into the slots it
returns. `replace` may be `borrowed`, that is, point into the buffer of a line; reading the next
line frees that, and it is `Lost` from then on: comparing it may come out either way.
`strv_alloc()` does not tell that `realloc()` has failed, so that the caller writes beyond the
capacity: `Overrun` is that, and the model ends there, as the behaviour is undefined.

### Sgl, Decode, Reader

A list of pages is a sequence of segments, each a sequence of page contents. A
step of `Sgl` is a turn of the loop of `sgl_fgetline()`: one `fgets()`. `WithPage`
does what `sgl_append()` does when the last segment is full: it links a new one
and stores the page in slot 0 of the *old* one. `fgets_endl()` never splits at
`'\0'` and `strlen()` stops at one, both modelled by `EndsPage` and `IsString`. A `read()` that
fails loses what `fgets()` had of the page; `fgets_endl()` returns a short page (`IsRead`). A
step of `Decode` is a turn of a decoder's loop on the buffer; `Decoded` is the
reference definition. The byte a pair of digits stands for is that pair. `Finished` is the end of
`fgetline()`: the caller has a line (`Delivered`), unless it could not be decoded and `--debug`
is on (`Crashed`): then `fgetline()` takes `strlen(NULL)` and nothing more is read.

## The runs

`tlc -config X.cfg MC….tla` checks one, `tlapm X_proofs.tla` the proofs of one
component; PROJECT.json names the module of each.

| run | instance | shows |
|---|---|---|
| `RunProgram` | 3 calls, one child of the caller's own, a handler that may interrupt `wait()`, `fork()` may fail | `StatusIsChilds`, `NoChildLeft` (of a process that is alone), `BadStatusIsReal`, `CallEnds` |
| `IoRedirect` | 2 processes, 3 requests, 2 names, 4 descriptors | `NoLeak`, `OldFileRefused`, refinement of `RedirectSpec` |
| `CloseFrom` | 5 descriptors, ints of 4 bits, every table, argument and set of faulty descriptors | `AllClosed`, `LowerKept`, `StopsAtFirst`, `Terminates` |
| `Ush` | 2 calls with 3 options of every kind in all, on the command line and in scripts, 5 descriptors | refinement of `Launcher`, `HonestStatus`, `NoScriptLeft`, `UshEnds` |
| `Getopt` | vectors of up to 5 arguments, 7 tables, 2 scans | `InBounds`, `ExchangeRotates`, `ParsedRight`, `ScanReturns` |
| `UshGetopt` | vectors of up to 3 arguments, masks of up to 4 characters (and two long ones), assignments of up to 3 | `MaskRight`, `EnvRight`, `InOrder`, `CommandRight` |
| `Script` | 2 scripts with bodies of up to 4 lines, up to 3 operands, growth by 2, `realloc()` may fail | `InCapacity`, `ArgsRight`, `StringsFreed`, `ScriptEnds` |
| `Reader` | texts of up to 3 pieces of up to 4 characters, pages of 3, segments of 2 pages, encodings chosen line by line | `LineRight`, `BuildFits`, `InPlaceSafe`, `DecodedRight`, `LineEnded` |

Why these bounds are enough. Three calls let a call be preceded by one that went
well and one that did not; the state a call leaves behind is one child. One
other child is all it takes to confuse `wait()`. A redirection holds one
descriptor besides the standard ones, so four descriptors are both room
enough and full as soon as one leaks; three requests allow one process two
with another in between. In `CloseFrom` the directory's descriptor can lie below,
at and above every other. Three options in all allow a failure first, in the middle or
last, of the call or of its script, or one that leaves something behind in a first call and two options
in a second; two calls allow statics, and a descriptor that a failing `dup2()` has left, to carry over.
With a script open, the table of five descriptors has one free or none. `OptErrLimit` is 10 in the code and 1 here, so that the
loop does end early. Twelve characters are two full segments of pages, so that
lines end before, at and behind every page and segment boundary. Five arguments
let words and options alternate twice with segments of unequal length, so that
`exchange()` takes both of its turns; a second scan finds a permuted vector and the
parser's old state. Three options suffice for `InOrder` and `CommandRight`: one fails, one
counts, one is overridden. Four characters of a mask are a clause and the beginning of the
next, and the two long ones have three clauses. With growth by 2 in place of 100 a
vector grows several times, by a line, by all operands and by the `NULL`; a second
script finds the statics of the first.

Each property has a mutant in PROJECT.json: a definition above the one it
replaces, marked as a mutant, with which the property fails. `ParsedRight` and the
properties of `UshGetopt` compare with a reference that reads the vector as a whole, after
the comments and README, and not with the parser's own steps.

### Where the code and its documentation disagree

A run that expects a violation finds a behaviour of the code that contradicts
what the repository says:

| run | what happens |
|---|---|
| `UshCallerChanged` | with `--fork`, `--chdir` and the other preparations change the *caller*: they happen before `fork()`, not after (inc/ush.h:26) |
| `ScriptReplace` | `--replace` in a script keeps a pointer into its line, which is freed before the arguments are compared with it (README.md:219) |
| `UshUmask` | a symbolic `--umask` takes away the permissions that it names; README.md:178 says that it is like what `umask -S` reports, which are those that remain (cmd-umask.c:106) |
| `ReaderLongLine` | a line longer than a segment of pages (64 × 1023 characters) loses its first page (README.md:301) |

Found while modelling, and present in the models, but without a run of their
own:

* `wait()` takes the end of any child of the caller for the program's, whose
  status is then not that of the child that README.md:158 waits for, and the program runs
  on (run-program.c:34). `StatusIsChilds` is about processes that are alone, `BadStatusIsReal`
  about all.
* A valid `--umask` counts as an error unless the old mask was 0, because
  `cmd_umask()` returns what `umask()` returns (cmd-umask.c:142).
* `--env` in a script gives `putenv()` a pointer into the line buffer, which is freed with the
  line (cmd-env.c:90): the program gets garbage (`Garbage` in `Ush`, which `PromiseKept` allows).
* A script whose body is empty runs its first operand, if `--append-argv` is given.
* The vector of a script is `sv_fatal`, and cs-strv.h:48 says that errors then do not
  return to the caller; they do, and `strv_alloc()` does not tell.
* An ambiguous `-W` name skips an argument or leaves `optind` beyond `argc`. With a null
  `longopts`, `-Wname` is returned again and again; no vector of the run has it.
* `fork()` fails: without children `wait()` fails too and the call returns 0;
  an interrupted `wait()` also yields 0 and leaves the program running
  (run-program.c:33, :72).
* A redirection of a *closed* standard descriptor is undone: `open()` returns that
  very number, `dup2()` does nothing and `close()` closes it, and 0 is returned
  (io-redirect.c:112). `PromiseKept` and theorem `KeepsPromise` assume that the standard
  descriptors are open at first.
* `-new` is `access()` followed by `open()` without `O_EXCL`: a file that appears in
  between is opened (io-redirect.c:71, :86). `OldFileRefused` says what does hold.
* `dup2()` fails: the descriptor of `open()` stays open (io-redirect.c:47, :103), and the programs of
  later calls inherit it. `NoLeak` and `NoScriptLeft` except just that descriptor, and `Launcher` has it as an
  effect of an option that failed.
* `--close-from` with a number that does not fit an `int` wraps around, and
  `close(fd_lo++)` overflows at `INT_MAX`; a hard limit lowered below open descriptors leaves
  those open in `close_from_all()`. Run and theorems assume neither.
* With `--debug`, a line that cannot be decoded ends the process: `fgetline()` takes `strlen(NULL)`
  (run-interpret.c:161). `LineEnded` has that as an end.
* With `long_only` the test for a long option is made again inside a group of short
  ones (cs-getopt.c:356), so that `-vquiet` is `-v` and then `--quiet`, where
  cs-getopt.c:173 promises it only of the beginning of an element. Tables of the run have no names
  of which that would be true, and theorem `ScansRight` leaves `long_only` out (`Regular`).
* The example at README.md:317 passes `--fork` as `argv[0]` to `ush_argv()`, which
  takes it for the name of the program.
* A program that is killed by a signal yields status 0 (`WEXITSTATUS`), and so do errors
  of a script, if `--fork` is given (ush.c:447). `HonestStatus` speaks of programs that exit.
* `cmd_fork` and `opt_command` once set stay set for later calls; an `ioerr` of an
  earlier call makes a later one exit with 2 without a message (ush.c:434).
* A script whose options close its own descriptor is read for ever, as a read error
  is not an end of file (`ReadFails` in `Ush`, state `spinning`).
* A `'\0'` in a line hides the rest of its page; `--encoding=null` does not split at
  `'\0'`; a last line without `'\n'` is dropped; a line that cannot be decoded is used as far as
  it was decoded, unless `--debug` is on.

### Fairness and deadlock

Weak fairness is on steps of code that just runs: `RunStep` and the child
before its `exec()`, the system calls of a redirection (opening a FIFO, which
blocks, is left out), the loops of the reader and of close-from, the calls and
steps of `Getopt` (its callers call until the end), the steps of `Script`, and in `Ush` all
that `ush_argv()` does after its options. `UshGetopt` states none: all its properties
are safety. There is none on programs, so no
property says that a call ends while its program does not. No choice of the
user (options, calls, requests) is fair: `UshEnds` holds because the number of
options is finite and the code after them is enabled at any point of them.

Deadlock is not checked in the runs: a process that has exited or has been
replaced by the program, or whose caller makes no more calls, has no next step,
and that is its proper end. That it does not stop earlier is what the liveness
properties say (`CallEnds`, `UshEnds`, `Terminates`, `LineEnded`, `ScanReturns`, `ScriptEnds`, the fairness of
`RedirectSpec`).

## The proofs

All for every value of the constants that satisfies the modules' assumptions.

* `RunProgram_proofs`: `Typed`. `StatusRight` and `NothingLeft` prove `StatusIsChilds` and
  `NoChildLeft`, which speak of a process that is alone (`Alone`: no other children, no
  handler). Neither is inductive: the status word says nothing of where it comes from.
  `StatusInv` adds where the current call's child is for each `pc`, and that earlier children
  are reaped and later ones unborn, so that `wait()` can only find the right one.
  `BadStatusHolds` proves `BadStatusIsReal` of any process.
* `IoRedirect_proofs`: `Typed`; `NothingLeaks` (`NoLeak`) from `OnlyOldFd`: during a request
  nothing but `old_fd` differs outside the standard descriptors, that was free, and it is open on the file
  asked for; it is closed again unless `dup2()` has failed; `OldFilesAreSafe` from `NotSeenBefore`: once past `access()`, the name was not
  there at the start of the request. `KeepsPromise` proves the safety part of the refinement,
  under `StdOpenAtFirst`, from `RedirectInv`: standard descriptors stay open, so
  `old_fd` is never one of them.
* `CloseFrom_proofs`: `Typed`; `CloseFromRight` and its corollary `LowerLeftAlone` prove `AllClosed` and `LowerKept`, assuming
  that arguments fit (`ArgsFit`) and limits cover the table (`LimitsCover`), from `WalkInv`: below
  the argument nothing has changed, between it and where the walk has got
  to nothing but the directory's own descriptor is open. `StopsRight` proves `StopsAtFirst` under the same
  assumptions, from `StopInv`: no open descriptor that the walk has passed was faulty, and above it
  nothing has changed.
* `Reader_proofs`, from `AlphabetAssumption` (no character falls under two cases of a decoder; that `'\0'` is
  no hexadecimal digit stops an escape cut off by the end of the string) and `SglAssumption` (sizes of
  pages and segments, and that `'\0'` is not the newline): `ReaderTyped`; `LinesRead` and `BufferLargeEnough` prove `LineRight` and `BuildFits` for every
  text and all sizes. None of them is inductive. `Counted` adds that the pages hold no more
  than has been counted, `Paged` that as long as a line fits, its pages hold all that has been
  read of it, have no newline and are full, but for one at the end of the file. `DecodingInPlace` and
  `LinesDecoded` prove `InPlaceSafe` and `DecodedRight`. `Strings` adds that the
  reading position never passes the final `'\0'`, that the unread part is that of the line,
  and (`Halfway`) that what has been written followed by what the unread part decodes to is what
  the line decodes to.
* `SeqLemmas`: lemmas on sequences, and what takes the place of induction. The library's
  induction theorems cannot be used here, as they take an operator. For one recursively
  defined value that is no obstacle: a set of naturals has a least element (`LeastExists`), so
  a set that has 0 and the successor of each of its elements has them all (`Induction`). That a
  recursive function exists, which `CHOOSE` alone does not say, follows from it for a function
  whose value depends on arguments of lower rank only (`RecursionExists`).
* `Script_proofs`: `Typed`; `CapacityKept` proves `InCapacity` for every step of growth, every
  script and all operands; `CopiesFreed` proves `StringsFreed`. The invariant is the two of
  them with `live = cmd_argc` while there is a vector: it is because the slots are filled
  without a gap that counting the strings in them counts the copies. `ArgumentsRight` proves
  `ArgsRight`. Its invariant, `Course`, says for each `pc` that what is in the vector, followed by
  what the rest of the script and of the operands gives, is what the reference makes of the
  whole script. It needs a line that is the argument `--` to be no option
  (`ScriptAssumption`).
* `Getopt_proofs`: `Typed`, `WithinBounds` (`InBounds`) and `ExchangeRight` (`ExchangeRotates`), for
  every table and vector. `InBounds` is not inductive: `Begun` adds when the parser
  is initialized, `Inside` that the recorded words lie before `optind`, `Pending` that a
  half-read element is the one at `optind` (a rescan must not find one), and `HalfWay` that
  what is left to exchange, once exchanged, gives what was to be exchanged in the first place: each
  turn of `exchange()` keeps that (`SwapsBottom`, `SwapsTop`). Minima over sets of positions
  exist by `LeastExists`, from well-foundedness. `ScansRight` proves `ParsedRight` of tables that are
  `Regular`: those without `long_only` (see above) and without `W;` where there are no long options, with
  which no call would come to the end. The reference is a recursive function of the vector, of which
  the proof uses only that it is a solution `F` of its equations (`IsOut`), and that there is just one
  (`OutUnique`). The invariant `Course` says that what the calls have returned, followed by what
  `F` says of the words skipped and the elements still ahead, is what `F` says of the original
  vector (`Follows`); `Between`, `Dashed` and `Within` say the same in the middle of a call, in front of an element, at one and
  inside a group of short options. That options are none of `Marks`, the values with which a call
  tells of an end or an error, is part of `UsesAssumption`. Arguments are over a constant `Tokens` and not
  `STRING`, which the provers know too little about; the runs put `STRING` for it.
* Also in `Getopt_proofs`, of the loop of `ush_getopt()` in `UshGetopt`: `UshTyped`, and
  `OptionsInOrder`, `CommandAsSaid`, `EnvAsSaid` and `MaskAsSaid`, which prove `InOrder`, `CommandRight`,
  `EnvRight` and `MaskRight` for every vector, every limit of errors and every set of arguments that
  fail. Every turn of the loop is a step of the parser or leaves the parser's variables
  alone (`TurnIsNext`), and the table of ush is `Regular` and lets no call lose an argument, so
  that `Course` holds here (`Parses`) and `parsed` is a prefix of what the vector asks for. `Line`
  adds where the parser is while the loop is at work, and that what is being carried out is the last of
  `parsed`. The five properties speak of the end of the loop, or of the whole vector; none is
  inductive. `UshInv` therefore states everything the loop has made as a function of
  `Carried`, the part of `parsed` that has been carried out: the recorded options
  (`DoneIs`), the errors (`ErrIs`), the notes of the caller (`SaidIs`), the environment (`EnvIs`) and
  the mask (`MaskIs`). Each lemma `TurnKeeps…` then asks what one more option does to its function
  (`RecsAppend`, `SaysMore`, `EnvMore`, `MaskMore`). At the end of the loop `Carried` is all the vector asks for.
  What `--umask` makes of a symbolic text is the lemma `UmaskMeans`: `parse_umask()` accepts a text exactly when
  `IsSymbolic` holds of it, and then the digit of each class is that of the rights its clauses
  give. The fold over the text exists by `RecursionExists`; by `Induction`, its state before the
  `k`-th character is told by the place of that character in its clause (`Reached`, `HeadOf`,
  `Place`), and it goes wrong at the first character that does not fit its place. That all
  characters fit is the same as that the clauses are well formed and no class that has got permissions comes
  again (`SymbolicFits`, `FitsSymbolic`). Of an octal text the model adds up the digits as `strtoul()`
  does and compares with 0777, while the reference takes the last three digits, if those in front are zeros;
  `OctalMeans` says that this is the same. That the bits of a symbolic mask are taken away is what the code does
  and README does not say (`UshUmask`); the theorem has the code's reading.
* `Ush_proofs`: `ScriptGone` proves `NoScriptLeft`; the invariant says where a script is open, and
  that descriptors other than the standard ones and the script's are at most
  closed, unless an option has failed: then some may be open on files to which was to be redirected. `KeepsPromise` proves that `Ush` implements `Launcher`, action by action. It adds
  `Course` (the count of errors and whether one has occurred agree until the program is
  started, and none has occurred from there on) and `ScriptApart` (no script is read through a
  standard descriptor). It assumes `StdOpenAtFirst` (see above) and `NoneIsNoAttribute`, about a value that stands
  for nothing. The instance of run `Ush` satisfies both.
  `Typed`, and `StatusHonest` proves `HonestStatus`, without assumptions on
  descriptors or scripts. Every step of `Ush` is a step of `RunProgram` or leaves its
  variables alone (`NextMoves`), so the lemmas of `RunProgram_proofs` are used here by
  `INSTANCE` and `StatusInv` holds in `Ush`. `Answer` adds that a call whose program was started
  has a child that was born, whose status is the one that came back.

Only model-checked: liveness and the liveness half of the refinement of `RedirectSpec`, as fairness
is out of the prover's reach; and `ParsedRight` of the run's tables with `long_only`, as it does not hold of
all of them (see above). The table of ush is not one.

## What is not modelled

* `set-print-fh.c`, `error-message.c`: which stream a message goes to. It is chosen once, and
  after `--stderr` or `--close-from` that may be a file or nothing; no other state of
  the program depends on it. What `exit()` in a forked child flushes depends on the
  caller's stdio buffers, which are not in this repository.
* `file-test.c`: a table of `stat()` predicates, of which ush uses `-d`; `Ush` has its outcome
  (`OpenScriptFails`).
* `fmt-explain.c`, `explain-err.c`, `fshow-*.c`, `decode-esym.c`, `decode-emsg.c`, `ls-*.c`, `mode-to-ftype.c`, `sisfx.c`,
  `show-*.c`, `dbg-show-svar.c`, `strv-debug.c`: formatting of messages and values. They
  keep no state, and nothing that ush does depends on what they print.
* The guards around `malloc()`, which end the process, and the test program.
* Within modelled parts: messages, and in strv.c the branches for a limit, which
  is 0; in getopt the wrappers with one static context, which make the same calls.

What would add most from here is a composition of `Script` with `Reader`, where the lines of a
script are those that the reader delivers, encodings and long lines included.
