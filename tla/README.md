# protobuf_edit: specifications and proofs

`protobuf_edit` reads, edits and rewrites protobuf messages on the wire, without a schema.
Everything in it is built from the same few parts: a kernel that reads one wire construct, pumps
that carry that kernel across chunks, machines that drive a pump over nested records, a matcher for
path programs, rewriters that walk a document twice, and editors that keep a tree of records with an
undo log and save it again. This directory specifies those parts in TLA+, model-checks them with TLC
and proves theorems about them with TLAPS.

Paths below are relative to the crate, `src/src/`.

## 1. The system

### Components, their state and what makes them correct

| component | state | operations | what makes it correct |
|---|---|---|---|
| carry kernel, `varint/carry.rs` | the bytes of the construct in flight, and an accumulator of the digits assembled so far | `step` (hot fold or resumable loop), `collect`, `clear` | a word cut anywhere is the word read in one piece: same value, same refusal, same coordinate |
| pumps, `pump.rs` | offset, sealed endpoint (`zone`), carry; the writers' pump also a staging ledger | `admit`, `step_spent`, `step_held`, `grab_fixed`, `construct_start` | the cursor never passes the innermost endpoint; no offset addition wraps |
| scan machines, `scan/grouped.rs`, `scan/groupless.rs` | resume mode, stack of open containers, terminal latch, plus a pump | `feed`, `finish`, the drive loop with its cascade and arms, sink callbacks | events and verdicts depend on the bytes alone; containers nest; a latched machine is never driven again; a feed returns |
| path programs and matcher, `path.rs` | flat tables of compiled states, stacked by start marks; a gap table for insert rules | admission of a program, `probe`, `commit_descent`, `exit`, the read, write and gap folds | the tables answer what the paths mean after any descents and exits; unchecked slices stay inside them |
| route and select, `route/*`, `select/*` | the scan state plus a matcher | as scan, with an answer per record taken from the matcher | as scan, and exactly the matching records reach the sink |
| transcode and rewire, `transcode/*`, `rewire/*` | the scan state, a staging ledger of held bytes | as scan, with held steps and an output | what is not edited is copied byte for byte; nothing is emitted before it is judged |
| rule-driven writers over a buffer, `rewrite/*` (and `inplace.rs`, `fixed_inplace.rs`) | a slot table of priced interiors, a frame stack, a matcher, pending tail inserts | measuring pass, emit pass | the output is the document the rules describe; the emit pass, which has no fault channel, meets no judgement the measuring pass did not make |
| online splicer, `splice/*` | the stack of committed layers; in the Vec faces open prefixes and staged tails, in the sink face an overlay of the source | one walk, an ask per record, a back-end | both back-ends give the bytes the answers mean |
| converters, `convert/*` | open groups or containers with their holes; the sink face's ledger | one pass with holes, or measure and emit | both faces give the same document; the second walk repeats the first |
| replay source, pump and script, `replay_source.rs`, `replay_pump.rs`, `replay_script.rs` | a walk over a source that is read again, an edit script of copies, skips and authored bytes | `begin`, `fill`, `skip`; booking a step, `fold` | the fold ends well only against a source of the measured length |
| replay writers and editors, `replay_rewrite/*` (and `replay_convert.rs`, `replay_splice.rs`, `overhaul.rs`, `maintain.rs`, `refit.rs`, `commission.rs`) | the walk's frame stack, a matcher, the script | measuring walk, emission fold | they write what their buffered twins write, and blame the same record |
| revising editors, `revise/*` (facades `markup`, `draft`, `review`, `session`) | a row arena threaded by links, layer descriptors, a value store, an undo log, dirt and history marks | `descend`, `set_*`, `insert_*`, `delete`, `undelete`, `clear_edit`, `copy_*`, `move_*`, `import_*`, `revert`, `save` | undo is exact; marks are exact; an orphaned row is unreachable and carries no pending edit; a save is the edited document |
| one-shot editors, `editor/*` (facades `patch`, `adopt`, `amend`, `intake`) | the same arena without a log | the same commands without `revert` | as above, without undo |
| fixed slabs, `fixed.rs`, `fixed_patch.rs`, `fixed_inspect.rs` | tables carved from a caller's slab | the readers' and editors' operations under a hard capacity | a refused operation leaves the tables as they were |
| cursors and indexes, `cursor/*`, `traverse.rs`, `inspect.rs`, `retain.rs`, `collect.rs`, `survey.rs` | a position, or a row table over one buffer | sequential parses | they read the record grammar the scan machines read |
| value side, `construct/*`, `scalar.rs`, `varint/slice.rs`, `admission.rs`, `wire/*`, `source/*` | none | pure functions | - |

How they interact: a scan machine owns a pump by value and is driven by its caller, one `feed` at a
time; during a feed it calls back into a sink the caller supplied, which may stop the stream, or
unwind through it. The static machines own a matcher beside their walk and move it at every descent
and exit. A rewriter takes the document from a cursor, or, in its replay form, from a source behind a
trait the caller implements, and hands bytes to a sink. The editors own their arena; everything they
do is a synchronous command of one caller. There are no threads and no async code: the hard
behaviours are suspended constructs, callbacks that unwind, endpoints that coincide, limits of the
coordinate space, tables that stack without bounds checks, two passes that must agree, sources that
refuse or change between two walks, and log entries that outlive the rows they name. The list under
"hazards" in `PROJECT.json` gives each of them with its line.

### Modules

| module | models |
|---|---|
| `Carry` | the kernel and the pump's step faces, as operators on a cursor record |
| `Scan` | the streaming scan machine, both dialects: `Parser` of `scan/grouped.rs` and `scan/groupless.rs` |
| `ScanReference` | the whole-stream reading a scan promises, and the properties stated with it |
| `RootScan` | the groupless `Validator` over the `RootPump`, a second implementation of the drive; refines `Scan` |
| `Transcode` | the streaming transcoder over the same pump, `transcode/grouped.rs`; composes it with `Scan`'s parser |
| `TranscodeReference` | what a transcoding makes of the whole input, and the properties stated with it |
| `CarryProofs` | lemmas about the kernel: what each verdict of a step or a collection leaves behind |
| `ScanProofs` | the TLAPS proofs about `Scan` |
| `RootProofs` | the TLAPS proofs about `RootScan`: every step is a step of the parser |
| `PathPrograms` | the path language: admission's shape laws, structural equality, and what a path selects |
| `Matcher` | the compiled matcher: probe, descent, the compilation of each staged state, exit |
| `MatcherReads` | the folds over the tables and the properties that compare them with the meaning |
| `MatcherProofs` | the TLAPS proofs about `Matcher` and the answers of `MatcherReads` |
| `Rewrite` | the buffered rewriter, `rewrite/grouped.rs`: both passes, one turn of the walk an action |
| `RewriteReference` | the document a job describes, read off the tree, and the properties stated with it |
| `Splice` | the online splicer, `splice/grouped.rs`, with both back-ends of `splice/back.rs`, and what its answers mean |
| `Convert` | the converter to the groupless language, `convert/groupless.rs`: both faces, and the document they promise |
| `ReplayScript` | the edit script and the fold that replays it over a second walk |
| `ReplayProofs` | the TLAPS proofs about the walk that compiles a script and the fold that replays it |
| `ReplayRewrite` | the rewriter over a replayed source, `replay_rewrite/grouped.rs` |
| `Regroup` | the converter to the grouped language, `convert/grouped.rs`: measure and emit over the matcher, and the document a program describes |
| `RewriteTwins` | both rewriters over one document, and their agreement; the splicer and the converters over the same documents |
| `Revise` | the revising editor core, `revise/groupless.rs`: arena, layers, marks, log, every edit command, descend, the climbs, the orphan walk |
| `ReviseScan` | the flat scan of a byte window that descending runs, as a function; gives `Revise` its constant `Scanned` |
| `ReviseReads` | the walks that change nothing: sibling chains, preorder, the offset index; the properties stated with them |
| `ReviseSave` | the two passes of a save, and the reference writer they are checked against |
| `EditHistory` | abstract: a document and the stack of the documents before it |
| `ReviseHistory` | `Revise` with the documents it would have saved as history variables; refines `EditHistory` |
| `ReviseProofs` | the TLAPS proofs about `Revise`: types, families of edits, holders |
| `InteriorProofs` | of its interiors: what a slot shows, and the rows under authored payloads |
| `MarkProofs` | of its marks and its log |
| `Transfer` | the revising editor with source transfer: copies, moves, imports, designated payloads, and a descent that may be refused at each allocation |
| `TransferSave` | its settle, its save passes and its undo, against a reference writer and `EditHistory` |
| `MCScan`, `MCTranscode`, `MCRootScan`, `MCMatcher`, `MCRewrite`, `MCRevise`, `MCReviseSave`, `MCTransfer` | values of the constants for TLC |

In several modules an operator stands next to the definition it could be mistaken for, under a
comment that begins with `Slip`. It is the definition as a plausible bug would have written it;
nothing uses it. `PROJECT.json` pairs each of them with the property that notices the difference.

## 2. The streaming machines: scan and transcode

### State and actions

`Scan` keeps the machine's fields under the code's names: `off`, `zone` and `carry` are the pump's,
`mode` the resume mode, `stack` the open containers, `terminal` the latch. `pc`, `chunk` and
`outcome` are the call in progress: `idle`, inside `drive`, or `gone` after `finish` took the machine
by value. `events` and `fed` are history: what the sink has seen and what was admitted.

| action | code |
|---|---|
| `Feed`, `RefuseFeed` | the prologue of `feed`: latch test, admission against the offset space, arming the latch |
| `ExitLen`, `GroupUnclosedAtLenEnd` | `cascade`, one endpoint an action |
| `ChunkSpent` | the drive loop leaving with `More` |
| `TagUnfinished`, `VarintRecord`, `LenRecord`, `FixedRecord`, `FixedOverrun`, `GroupRecord`, `GroupEnd`, `TagRefused` | the head arm, by what the tag turns out to be |
| `ResumeVarint`, `ResumeLen`, `ResumeFixed`, `Forward`, `Swallow` | the other arms of `drive` |
| `Finish` | `finish` |

One action is one pass of the drive loop. A pass that reads a tag and at once its value does both, as
the arm does. The order the code writes in is kept where a callback can unwind between two writes:
`FixedPayload` shows the sink the payload before it leaves the suspended mode, and an unwinding
callback leaves the latch armed because the line that disarms it is skipped. The sink may continue,
stop, or unwind at every event, and answers every LEN with any disposition. A varint is kept as the
sequence of its base-128 digits, least significant first: TLC's integers are too narrow for a u64,
and a digit is exactly what a wire byte carries. `Carry`'s `Step` has the hot fold (a word whole in
the chunk) and the resumable loop as two different computations, as the code has; which one the code
runs is decided by what is in the chunk and the carry, and so it is here.

`ScanReference!Parse` is the meaning: a recursive reading of the whole stream that knows nothing
about chunks, modes, carries or pumps. `RootScan` is the Validator of the groupless dialect, written
separately in the code over a pump without zones; its refinement mapping puts an empty stack and the
root zone in place of what it does not have.

### The transcoder

`Transcode` is the machine that writes. It drives the same pump through the same prologue, endpoints
and windows, so it extends `Scan` and adds four variables: `stage`, the tag of the record under way;
`floor`, the frame of the dropped group it is inside; `redirect`, the account of a payload the rule
has taken over; and `written`, every byte emitted.

| action | code (`transcode/grouped.rs`) |
|---|---|
| `TranscoderFeed`, `TranscoderSpent`, `TranscoderFinish` | `feed`, the drive loop leaving, `finish` with the rule's tail |
| `EndLen`, `GroupOpenAtLenEnd` | the cascade |
| `HeadStops`, `UnknownHead`, `VarintHead`, `LenHead`, `FixedHead`, `FixedTruncated`, `GroupHead`, `GroupTail` | `head` with what it calls: the ask loop and the verdict of the record, `group_open`, `group_end` |
| `VarintGoesOn`, `LenGoesOn`, `FixedGoesOn`, `ForwardOn`, `SwallowOn`, `RedirectOn` | the other arms of `drive` |

The held faces leave a completed construct in the carry until its verdict settles (`Held`), because
its source bytes may yet be emitted. `Locked` is the code's own reading of the zone as "inside an
entered LEN", where only the verbs that keep the length are asked. A redirected payload counts down in
`Forward` with its account beside it in `redirect`, which is where the code keeps it inside the mode.
The rule answers any verb the layer offers: keep, rewrite, drop, insert before it (whole or pulled from
a source that is exact, short or over), pass, enter, replace, replace from a source, transform in five
styles of paying the account, divert. A callback, of the rule or of the output, may unwind once in a
pass, before the pass has written anything; unwinding half-way through a pass's writes leaves the same
latch and is not told apart.

`TranscodeIsExact` is the contract: `Reading` goes over the whole input with random access, copies
source slices and asks each frame whether it was dropped; there is no stage, carry, mode or floor in
it. Between feeds the rule has been told exactly what that reading tells, exactly the bytes it writes
have left - none for a record not ruled on yet or inside a dropped group - and a breach is its breach
at its coordinate. `OutputReingests` reads the finished output again with `Parse`, under the standard
the job declared: it is a document down to the ends of every entered message. It speaks of a rule whose
own bytes are records (`Injected` is one), so a payload diverted to the root and echoed is left out.

### Runs

| run | asks |
|---|---|
| `scan_chunks` | groups and LENs of every disposition, nested two deep, mismatched and cut anywhere, under tags, lengths and values that are padded, too wide, out of class, not minimal, cut by a seal or by a chunk: is the chunking invisible (`ChunkingInvisible`), does the accumulator agree with the held bytes (`AccumulatorAgrees`)? |
| `scan_sink` | both machines, one job each, up to and past the end of the offset space: a parser whose sink stops or unwinds at any event, over fixed payloads inside LENs and out; a transcoder under either standard whose rule gives every verb at every record. Types (`TypeOK`), zones and latch (`ZoneDiscipline`), no branch compiled as unreachable (`NoUndefined`), progress in every pass (`ProgressPerPass`), every feed returns (`FeedReturns`); is the transcoding exact and its output a document (`TranscodeIsExact`, `OutputReingests`)? |
| `root_scan` | the Validator is the Parser over a sink that skips every payload (`ImplementsParser`), and the seal cut the RootPump compiles away is never reported (`CutUnreachable`), close to the end of the offset space too |

`ChunkingInvisible` is the contract of the whole part: between two feeds the sink has seen exactly the
events the whole stream has, a fault is the whole stream's fault at the same coordinate, and what
`finish` would answer is what the reference answers.

### Bounds

- *Windows.* A tag or a length word is at most 5 bytes and a varint at most 10 in the code; the runs
  narrow them to 2 and 3, with a terminal class of one bit, so that a word that fills its window, one
  that exceeds it and one that ends out of class all fit in a stream of six bytes. The step faces
  depend on the window only through its width and last class, and the proofs hold for every window.
- *MaxOff* is `u64::MAX`. `scan_sink` and `root_scan` make it so small (10 and 6) that a stream meets
  the end of the offset space; `scan_chunks` makes it larger than any stream, so that it acts as the
  absent endpoint.
- *MaxStream and MaxChunk.* Streams of 6 bytes in chunks of up to 2 (`scan_chunks`, a fixed payload at the root included), 11 in chunks of
  up to 4 (`scan_sink`), 7 in chunks of up to 2 (`root_scan`). The longest construct of a run is
  shorter than the stream, so every construct is met whole, cut at each of its bytes, and spread over
  several feeds.
- *Depth* is 2 in the grouped runs and both sides of the limit are reached; the Validator has no stack.
- *Streams*, for the transcoder, is a set of 21 documents in place of all byte strings, since a
  rule multiplies every record by its verbs: groups nested, mismatched and left open, messages in
  messages and one level too many, each word padded, cut by a seal, too wide; they are cut into chunks
  of up to 4 bytes everywhere. At most one insertion precedes a verdict; the ask loop takes any number,
  each as the first. `Rewrites` has a value of one byte and one of two, against fields of one to three.
  `Ample` is an offset space no output reaches. The run has some 236,000 states.
- *Bytes* are picked per run: one tag of each class the run is about (ten byte values in
  `scan_chunks`), small lengths, a byte with the continuation bit, and a field-zero tag.
  `scan_chunks` has some 2.1 million distinct states.

### Fairness

`WF` on the drive of each machine only (`Drive`, `TranscoderDrive`). `feed` is a synchronous loop: once entered nothing but its own passes can run
on the machine. No fairness is assumed of the caller, who may never feed again, or of `finish`.

### Proved

`ScanProofs` proves, for every window allowed by `WindowAssumption` and every dialect, standard,
depth, offset space, alphabet, sink and bound allowed by `ScanAssumption`:

- `ScanInvariant`: `Spec => []IInv` with `IInv == TypeOK /\ ZoneDiscipline /\ AccumulatorAgrees`;
- from it `ScanTypeCorrect`, `ScanZoneDiscipline`, `ScanAccumulatorAgrees`, `ScanNoUndefined`;
- `ScanProgress`: the action property `ProgressPerPass`.

Why these three together: that no word is cut at the root, and that a fixed collection meets no seal,
follow from what the mode still owes having been admitted against the zone (`ModeAdmitted`), which a
LEN exit preserves only because the shadowed endpoints grow outwards (`ZonesNested`); and the next
completed length word is a number at most when the accumulator spells the held bytes, so the types of
a frame's endpoint rest on the accumulator. The heart is a handful of lemmas about `Step` - what it
leaves in the cursor for each verdict - proved once from the definition of the two loops; each drive
arm then cites the lemma for the verdict it is in.

A fact met on the way: the cascade of `scan/grouped.rs` has a branch for a word that straddles the
endpoint (line 712). `EndpointsUnstraddled`, a part of the proved invariant, says it is never taken,
because a step that meets the seal reports the cut in that very pass.

`RootProofs` does the same for the validator, the drive's second text, under `RootAssumption`:

- `RootInvariant`: `Spec => []RootInv`. What a live machine is suspended in has room left in its
  window, and a fed chunk ends strictly below the root's own coordinate (`feed` refuses it otherwise).
- `SealCutUnreachable`: so the branches the `RootPump` compiles away - a word or a fixed payload cut by
  the seal - are dead, which is the condition its `unreachable_unchecked` stands on.
- `RootTakesParserSteps`: `Spec => P!Init /\ [][P!Next]_(P!vars)`, where `P` is `Scan` over the sink
  that skips every payload. It is proved arm by arm; each arm's lemma says that the zone the parser
  carries at the root admits exactly what the validator admits without one.

Both rest on `CarryProofs`, where `Step` and `Collected` are characterised verdict by verdict.

Only model-checked: `ChunkingInvisible`, whose reference is a recursive operator; `FeedReturns` and the
fairness conjunct of `ImplementsParser`, which need ENABLED; the transcoder, whose
reference is recursive.

## 3. The path matcher

### State and actions

A path is a sequence of segments: a field, or `AnyDepth` with the set of fields it may descend
through. `PathPrograms` says what a path selects, by strings of field numbers, and which programs
admission takes. `Matcher` is the NFA the static machines walk beside a message: the tables `targets`,
`stages`, `wilds` and `gaps` hold the layers of all entered containers behind one another, `layer` the
start marks of the current one, `levels` those of the suspended ones.

| action | code (`path.rs`) |
|---|---|
| `ProbeRoutes` | the probes, as far as they write: the states that continue into a field are staged, sorted, deduplicated |
| `CommitDescent` | `commit_descent` up to its loop: the marks are pushed, the staged states await compilation |
| `FlattenNext` | one turn of that loop: `flatten_state` of the lowest state awaiting |
| `Exit` | `exit`: the tables are truncated at the layer's marks, the marks are popped |

The read fold, the write fold, the single-action fold and the gap folds change nothing; they are the
operators `VisitTargets`, `ProbeTarget`, `FirstTarget`, `VisitGaps`, `ProbeGaps` of `MatcherReads`. Rule
ids and segment indices are natural numbers, bounded by `MaxPaths` where admission bounds them.

### Runs and bounds

`matcher` offers every sequence of up to three of seven segments, the inadmissible ones too, alone and
beside eight partners whose wildcards converge with it, and triples of insert rules on both sides of a
gap; three fields, three containers deep, entered and left in any order (110,618 states). Three
segments are two interior states and a terminal: a wildcard in front of a wildcard in front of a field
is the shortest path whose states converge.

- `DeliveriesAreExact`: a record is delivered to each path that selects it, once, in authoring order,
  wherever the walk stands and whatever it entered and left before.
- `WriteFoldIsExact`: one rule, or a conflict of the two lowest, exactly when the paths say so.
- `GapsAreExact`: insert rules fire at the gap they anchor, on their side, in rule order.
- `PruningIsExact`: something is staged exactly when some path can still match inside the container.
- `TypeOK`, `MarksNest`, `LayerOrder`: every state names a segment of its path; the marks nest; the
  path ids of a layer never decrease, which is what lets the folds collapse with one register.

A note on admission, met while modelling and the subject of no run: `paths_equal` compares segments
one by one, and its comment says that canonical spellings make this coincide with equality of
selections (`path.rs:546-548`). For rotated paths they do not: a loop over a field before that field,
`<AnyDepth {1}, 1, 2>`, and after it, `<1, AnyDepth {1}, 2>`, select the same records, and both are
admitted. A record both select is then a conflict at run time, not a refusal of the program.

### Proved

`MatcherProofs` proves, for every set of fields, every program offered and every bound, `MatcherTypes`
(`TypeOK`), `MarksAlwaysNest` (`MarksNest`) and `LayersStayOrdered` (`LayerOrder`). `Nested`, the first
two together, is inductive: an exit truncates a table at a mark, and what is left must still hold the
marks below. `LayerOrder` needs `Compiling` beside it: while a layer is being compiled, every path id
already in it is at most that of any state still awaiting, and the suspended layers are ordered too.

What the tables answer is proved too: `DeliveriesStayExact`, `WriteFoldStaysExact`, `GapsStayExact` and
`PruningStaysExact` state the four exactness properties of the run for paths of any length, wildcards
with any descend sets, and walks of any depth. The invariant is `Answering`:

- `LayersExact`: for each open layer, not only the innermost, and for every trail of fields that goes
  through the containers entered so far and beyond, a path selects the trail exactly when the layer's
  tables lead it there (`Leads`): its terminal is among the layer's targets or gap entries, or a stage
  or a loop of the layer goes on into the next field at a segment from which the rest of the trail can
  be spelled. The suspended layers are in it because an exit answers from one of them again, and the
  states still awaiting compilation count as the layer's own, so each turn of the loop preserves it.
- `LanesApart`: a target entry is an action's, a gap entry an insert rule's, on its side.
- `ProbeStands`: what a probe staged is what the current layer continues into that field, until the
  walk moves.
- `GapsOrdered`, beside `LayerOrder`: the gap entries of a layer too are in rule order, which is what
  makes the one register of the folds enough (`PassedVisits`).

An initial layer is exact because each path awaits at its first segment. A descent is exact because a
spelling of a longer trail passes its next container at a stage or in a loop (`CommitExact`); a turn
of the loop because a wildcard may stop at once, or loop on its own field (`FlattenExact`); an exit
because the marks nest (`ExitExact`). `Spellings`, what a path means, is a recursive function from the
end of the path; that it exists for paths of every length is `SpellingsExist`, by `Descends`: induction over a set of
numbers rather than a predicate, from the well-founded order of the naturals. All else is by its one
equation. Pruning needs
the converse as well: from a staged state the shortest spelling, in which every wildcard stops at once,
is a match below (`SpellShortest`), so the alphabet must hold the fields the paths name, which
admission of a segment gives. Nothing of the run's matcher properties is left to TLC alone.

## 4. The rewriters

### The buffered rewriter

`Rewrite` walks the document twice, as the code does. The measuring pass judges every record and puts
the length of each descended interior, with the number of slots below it, in a slot; the emit pass
walks again, skips the interiors whose slots call them clean, and writes. `layers` is the stack of
committed LENs, `pends` the tail inserts that wait for a group's end, `sink` the consumer of the
running pass: one walk drives both, as the generic `walk` does.

| action | code (`rewrite/grouped.rs`) |
|---|---|
| `Seal`, `Finish` | `run_into`: the pass ends at the root, its inserts fire, the plan is taken or the output done |
| `LayerEnds` | a layer's interior is spent: tail inserts, `ascend`, the matcher's exit |
| `WireBreach` | the cursor refuses |
| `Suppressed` | a record below a deleted group |
| `GroupEnter`, `GroupExit` | a group's head and end tag, with what was pending on it |
| `Scalar`, `LenRecord` | the other records, with every action, insert lane and descent |

The document is a sequence of entries as the cursor delivers them, each with the widths of its parts.
A source byte is the token of its offset and an authored word a token of its own, so an output shows
which bytes were copied from where. What the matcher answers at a record is what the paths mean, as
the runs of section 3 show; the walk moves it by its commits and exits, and a missed exit is noticed.

`RewriteReference` says what a job promises, as a recursive reading of the document as a tree.
`OutputIsExact`: a job ends with exactly those bytes, or refuses with the document's first fault, and
there is no third way: the emit pass, whose fault channel is `unreachable_unchecked`, reaches no
judgement the measuring pass did not make, reads no slot that was not claimed, and emits what was
priced.

### The replay rewriter

`ReplayScript` is the edit script and `fold`; `ReplayRewrite` the measuring walk that compiles it.

| action | code |
|---|---|
| `BeginReplay` | `measure`: the first walk begins with nothing booked |
| `CloseFrame`, `SourceEnds`, `WordBreaks` | `Machine::walk`'s loop head: an extent met, the walk's end, a word that refuses or that the source cuts |
| `GroupOpens`, `GroupCloses`, `ScalarRecord`, `LenIsMet` | the arms, each with every rule it may meet and the script's bookings |
| `MeasureRefused` | the source refuses at any read of this walk |
| `Rewinds` | `begin` again: the second walk is of any length among `Drifts` off the first |
| `CopyView`, `CopyFallsShort` | one view lent and handed on, of any size up to what is owed; the walk ends inside a copy |
| `Seek`, `Emit`, `Probe` | a skip or a re-authored prefix, authored bytes, the end probe |
| `SourceRefuses` | the source refuses to rewind, lend, seek or be probed |

The walk reads the same bytes as the buffered rewriter, of which the source may hold only a prefix. A
record the source cuts is met word by word, so that a verdict inside an open message may come before
the message's own overrun is known; `Arbitrated` is the probe that decides between the two.

`RewriteTwins` runs the buffered rewriter, then this one over the same source. `TwinsAgree` joins them:
wherever the source lends, refuses or tears, what the sink has received is a prefix of what the
buffered rewriter writes, and the whole of it, with the compiled length and the same receipt, when the
fold ends well; a document either refuses is refused by both, at one record and behind one trail of
crossed messages. `TearsAreReported`: a compiled script is well formed, a fold that ends has met a walk
of the measured length, one that reports a tear another. `JobsEnd`: every job ends.

### The online splicer

The splicer asks its caller's rule once for each record and acts on the answer at once; a committed
LEN's prefix is settled when its container closes. One walk (`splice/grouped.rs`) drives either of two
back-ends (`splice/back.rs`): the Vec faces append to an output that holds each prefix open and slide
what follows it, and the sink face, whose bytes cannot be taken back, books an overlay of source runs,
staged bytes and prefix slots, folded at the end. `Splice` rides both at once, each until it refuses.

| action | code |
|---|---|
| `SpliceScalar`, `SpliceLen`, `SpliceEnter` | the asks: keep, insert before, drop, rewrite, replace, commit with a tail, pass a group or walk it |
| `Silenced`, `SpliceExit` | below a passed or a dropped group; the end tag of a walked one |
| `SpliceEnds` | a committed interior is spent: `close`, in both back-ends (`EmitClose`, `PlanClose`) |
| `SpliceBreach` | the cursor refuses |

A rule is any function of what it is asked, so the model lets it answer anything at every ask, and
`answers` keeps what it said. `Spliced` reads the document with these answers as a tree, and
`SplicesAgree` compares: each back-end ends with the bytes they mean, or the job with their first
fault; while both live, the sink's running account is the Vec faces' physical length and the tails
they have staged.

### The converter to the groupless language

`Convert` frames every group as a LEN (`convert/groupless.rs`). The Vec faces do it in one pass, with a
one-byte hole at each start tag that the end tag settles, wider if need be (`OnlineExit`); the sink
face measures every body into a ledger (`Fills`), seals it and walks again. `ConvertRecord`,
`ConvertEnter`, `ConvertExit` and `ConvertBreach` are the turns of the first walk, driving the Vec
faces and the measuring pass together; `ConvertSeal` judges the measured total, `EmitTurn` and
`EmitEnds` are the second walk. `ConversionsAgree`: both faces accept the same documents and give the
bytes of the tree `Reframed`, and the second walk reads no slot that was not claimed, meets no fault
and keeps its pins. Where the Vec faces refuse, they may name the output's length before a later
breach the sink face names: they meet their cap as they go.

### The converter to the grouped language

`Regroup` frames the LENs a path program designates as groups (`convert/grouped.rs`), over the other
dialect. It is the rewriter's shape, measure and emit, with one difference: only the LENs crossed on
the way to a designation have slots, since a framing changes every container around it. What the two
consumers do at a crossing is `Rewrite`'s `Descend` and `Ascend`, on the same sink records.

| action | code |
|---|---|
| `RegroupLen` | a LEN: copied, framed (`OpensGroup`), crossed (`CrossingOpens`) or skipped by its slot's count (`SkipsCrossing`) |
| `LayerSpent` | an interior is spent: `ascend`, or the end tag of a framed one (`ClosesGroup`) |
| `RegroupScalar`, `RegroupBreach` | the other records, the cursor's refusals and the caller's schema errors |
| `RegroupSeal`, `RegroupEnds` | `run_into`: the measured total is judged and the second walk begins; the pins |

`RegroupIsExact`: the output is the document `Regrouped` reads off the tree, or the fault the first
one in it; the second walk reads no slot that was not claimed, meets no fault and keeps its pins.
`SpliceAndConvertAreExact` joins the three agreements of these machines.

`regroup_receipts` expects a violation. Both fronts assert, in debug builds, that the second walk's
whole receipt repeats the first's (`convert/grouped.rs:1232`, `1265`). A LEN crossed on the way to a
designation that does not occur in it is counted by the measuring pass and skipped by the emit pass,
so a debug build panics on a lawful job whose output is right. The rewriter leaves that count out of
the same assertion, and says why.

Four things a reader of the code may want to know, met while modelling; none is a run's subject.

- At the root a LEN is admitted against the last coordinate, `u64::MAX - 1`; a fixed payload is
  compared with the zone alone (`replay_rewrite/grouped.rs:734`). A source of 2^64 - 1 bytes that ends
  in a fixed record would meet the root sentinel and `close_frame`'s `unreachable!`. Offsets are
  not modelled at their width here, so no run shows it; the hazard list names it.
- The two twins name one record but may name different words of it, or different reasons: a nested
  LEN that overruns its container is refused at its prefix by the one and at its payload by the other,
  and a root LEN that both overruns the source and meets a conflict, a kind mismatch or the depth
  limit is refused for the overrun by the buffered rewriter and for the rule by the replay one.
  `TwinsAgree` therefore compares the record's head and the trail, and not the kind.
- A second walk of the same length with other bytes is the caller's breach of `StableReplaySource`. The
  fold cannot see it and does not promise to; the model leaves it out.
- The splicer's sink face books a tail at its commit, the Vec faces append it at the close. When a tail
  is pending while the output stands at its longest, and shrinks before the close - an inner container
  behind it gives up a padded prefix, say - `splice_sink` refuses for the output's length where `splice`
  and `splice_into` succeed. The comment at `splice/back.rs:317-319` has the account mirror the Vec faces'
  physical length exactly. `SplicesAgree` therefore asks for one verdict only of jobs without tails, and
  otherwise that the sink face refuses whenever the Vec faces do.

### Bounds and fairness

`rewrite` runs pairs of thirteen action rules (delete, normalize, replace, by paths that converge) over
ten sources of messages in messages and in groups, clean and changed ones side by side, padded tags,
prefixes and values, broken payloads, mismatched and unclosed groups, each whole and 1, 3 and 6 bytes
short; action rules beside insert rules; and pairs of insert rules beside an action. Depth limits are 1
to 3. A one-byte prefix spells lengths below `LenStep` = 4 and the LEN class ends at `LenMax` = 14, so
that prefixes change their own width, interiors outgrow their class and outputs outgrow the document
class. The second walk is 5 or 1 bytes short, equal, or 2 longer: `Drifts`.

Jobs without rules are the splicer's and the converters': the same sources whole and 1 and 4 bytes
short, at depths 1 and 3, and seven more at depth 4 whose containers shrink below the width of their
prefixes, whose groups and crossed messages outgrow theirs, and whose interiors or outputs outgrow
their class. The rule answers with 3 bytes, which fit, or with 15, past the class (`Answers`); a
committed or replaced payload may also get none. The converter to the grouped language takes eight
programs, nested, converging and wildcard ones among them (`SomeDesignations`), over fields whose tags
take 1 to 3 bytes (`TagWidths`). `Entries` is every record of these sources, at any depth. Every document is at most `LenMax` long (`JobsAssumption`), as
admission makes it. 260,771 distinct states.

`WF_twinVars(TwinNext)`: a job is one synchronous call on one thread, which keeps turning. Deadlock is
not checked because a job that ended stands.

### Proved

`ReplayProofs` proves `TearsAlwaysReported`: `ReplaySpec`, one job of the replay writer from before its
walk begins to its end, implies `[]TearsAreReported`, for every rule set, source, supply and depth
limit, every length of the second walk and every way the source lends its bytes. `FoldReportsTears`
states the fold's part by itself, from any well-formed script, since the replay editors compile theirs
elsewhere and replay it through the same fold.

The inductive invariant `ReplayInv` has a part for each phase. While the fold runs it is `FoldInv`,
whose part `Abreast` says that the pump stands behind every step served and before the end of every
step to come; a copy that falls short therefore stands before the measured end. While the walk measures
it is `MeasureInv`:

| part | says |
|---|---|
| `off + Widths(rest) = Bound(zone)` | what is left of the innermost message ends where its extent ends, so a turn that is not at the end has a record before it |
| `Framed`, `ZoneOf` | every open message remembers the records behind it and the extent they stand in, through any groups between |
| `Vanishing` | the groups of a deletion are the innermost frames and `silent` counts them, so a message is never open inside one |
| `Booked` | the script is `Sound`, well formed as far as its cursor, and the cursor stands where the walk does, or behind it while a deletion stands open |

`Booked` is the reason for the rest: a step of the script moves forward because nothing was booked
beyond the walk, and the cursor is at the total when the walk ends because the stack, and with it the
deletion, is then empty. Each booking of the script (`CopyTo`, `SkipTo`, `Stage`, `Borrow`, `OpenPrefix`,
`SettlePrefix`) has a lemma that it keeps `Sound` and says where it leaves the cursor. `SourcesAssumption`
is what the proof takes of the records: a tag takes a byte or more, a LEN's prefix too, and a record's
parts add up to its width. `Widths` is a recursive function; that it adds up is proved by descent from
its defining equation, for sequences of any length.

Only model-checked: everything that compares with the recursive references, and `JobsEnd`.

## 5. The revising editor

### State and actions

`rows` is the arena, with the code's fields: kind, source offsets, tag and prefix widths, the parent
and next links, the slot (unopened, faulted, or the layer it opened), the edit, the authored and dead
flags, and the two marks with what they rest on. `layers` holds each layer's chain ends, its run of
source rows and the counts of marked members; `store` the authored values; `log` the undo entries.
`job`, `climber` and `orphans` are the locals of the command in progress, and `pc` the loop it is in.

| action | code (`revise/groupless.rs`) |
|---|---|
| `SetScalar`, `SetPayload`, `Delete`, `Undelete`, `ClearEdit` | the value commands and shrouds, with their gates, up to the log push and the row's own history mark |
| `InsertHead`, `InsertTail`, `InsertAfter` | the insertion commands, with `apply_insert`'s splice |
| `Revert` | `log_pop` and the entry's past as the next write |
| `DescendOpens`, `DescendFaults` | `descend`: scan, `seal_scan`, publish, or the resident fault |
| `Raise`, `Lower` | one round of `raise_mark` and `lower_mark`, for the history and for the dirt mark |
| `WriteState` | `write_state` from its edit to the start of its dirt climb |
| `OrphanWalk` | `orphan_interior`, one generation of the subtree an action |

A command that fails a gate returns an error and changes nothing: its refusal is the action not being
enabled. The scalar kinds (varint and the two fixed widths) go through the same commands with the same
gates, so they are one kind. What a scan finds is a constant, a function from byte windows to records
or to `Broken`; the runs give it the function of `ReviseScan`, with narrow words. A row keeps the
window its payload covers as bytes; `end` and the widths place it in the source. In a layer scanned
out of an authored value the offsets count from that value's start: nothing may read them as source
offsets, and `NarrowestIsExact` would notice if something did. The orphan walk goes row by row in
preorder in the code; nothing reads the arena between two of its rows, so the model marks all rows of
one depth at a time.

`ReviseSave!Save` is the pair of passes. The sizing pass walks the visible tree and records the body
length of each dirty opened container; the emit pass walks again and takes the lengths back in the
order they were recorded, so the two orders must agree. `Shown` is the meaning: the document written
from the visible tree, without marks, clean runs or recorded lengths.

### Runs

| run | asks |
|---|---|
| `revise_tree` | insertion at every anchor, shrouds, interiors reopened over payloads that scan and that do not. Types, every walk that only reads (`ReadsAreExact`: the chains thread the visible tree, `ChainsThreadTheTree`, and the offset index names the narrowest record, `NarrowestIsExact`), `FamiliesNeverMix`, `AuthoredInteriorsBrowseOnly`, `SlotsAreCurrent`, and that every command returns (`CommandReturns`) |
| `revise_save` | every order of edits, descents, flips and reverts over padded length prefixes, empty bodies, bodies of exactly the old length, both caps. The marks and the log: `Lattice` (the editor's own `assert_lattices`), `LogNamesLiveRows`, `OrphansAreClean`, `LiveRowsAreHeld`. The bytes: `SavesTheDocument` (they are the visible tree written out, `SaveIsExact`, and reopen to it, `SaveReopens`) and `UndoIsExact`: seen between calls, the editor is an `EditHistory` of saved bytes |

What they are after, in the code's own terms. A row's flag and its layer's count are kept by climbs
that stop early; one stop too early and a dirty subtree is saved as its old bytes, one too late and a
clean one is priced twice. A flip of the speaking value orphans an interior, whose rows stay in the
arena: the log must not name them, they must carry no pending edit, and the marks above them must not
count them, and the gate that makes it so asks only the history count of one layer. `holding_layer`
asserts with `unreachable_unchecked` that a live row's container is opened. Two source offsets are
unwrapped on the strength of the edit's family. `UndoIsExact` joins all of it: undoing after browsing,
reopening and orphaning gives back the very bytes, from marks and lengths that were rebuilt.

### Bounds

`MaxRows`, `MaxLayers`, `MaxLog` and `MaxStore` cap rows and layers minted, entries pending and
values stored; all of them grow for ever in the code. `revise_tree` has 6 rows, 4 layers, 3 pending
commands and 1 value (508,823 states), `revise_save` 6 rows, 3 layers, 2 pending commands and 2 values
(1,408,800 states): enough for a container edited, cleared, descended again and undone with an edit of
its own interior in between, for two entries of one row of which only the first may release the mark,
and for an orphaned interior two generations deep. The bounds hold new commands back and never an
internal step or a revert, so every command begun can end. `Cap` is 11: documents the commands make
are on both sides of it. The sources are 6 to 11 bytes and hold an opened container in a container, an
empty message, a scalar behind it, a payload that does not scan, and a padded prefix.

### Fairness

`WF_vars(Internal)`: a command is one synchronous call. No command is assumed to be issued.

### Proved

Three modules prove, for every document, every scan result and every bound allowed by
`ReviseAssumption`, all the invariants of the two runs that are not stated with a recursive walk:

| theorem | property | module |
|---|---|---|
| `ReviseInvariant` | `IInv`, inductive | `ReviseProofs` |
| `ReviseTypeCorrect`, `ReviseFamiliesNeverMix`, `ReviseLiveRowsAreHeld` | `TypeOK`, `FamiliesNeverMix`, `LiveRowsAreHeld` | |
| `ReviseInteriors` | `Interiors`, inductive with `IInv` | `InteriorProofs` |
| `ReviseAuthoredInteriorsBrowseOnly`, `ReviseSlotsAreCurrent` | `AuthoredInteriorsBrowseOnly`, `SlotsAreCurrent` | |
| `ReviseCommandsRunDown` | the variant of `CommandReturns`: `StepsLeft` falls at every step of a command, from at most three for each row of the arena, and two | |
| `ReviseAccounts` | `Accounts`, inductive with both | `MarkProofs` |
| `ReviseLattice`, `ReviseLogNamesLiveRows`, `ReviseOrphansAreClean` | `Lattice`, `LogNamesLiveRows`, `OrphansAreClean` | |

`IInv` has six parts. `TypeOK` bounds every link by what has been minted; it is stated with the sizes
as parameters, so that a lemma says once that the types grow with the arena. `FamiliesNeverMix` is not
inductive, since an undo puts back what the log holds: `RowsFit`, `LogFits` and `JobFits` say of
every edit wherever it waits - on a row, in the log, in the running job - that it is of its row's
family, and of its row's kind when it carries a payload, which is what lets descend scan a stored
value. `LiveRowsAreHeld` speaks only of the editor at rest: `Held` is its form inside a command,
where a row whose container is no longer opened must be one the orphan walk has reached and not marked
yet, and `Busy` says when that walk runs. Each action has a lemma; actions that mint nothing share
`FrozenStep` and `ShapeStep`, those that do share `GrownStep`.

`Interiors` adds what the arena shows. `Browsed` alone is not inductive: that the flag descend sealed
still matches the payload above needs every write of a speaking value to have let go of the interior,
so `Strays` says that what the walk has reached hangs from a row that shows nothing, and `Current` that
what a slot shows is the scan of the bytes that speak now. `Current` counts a row's members, so no two
rows may share a layer (`Apart`), and a row must come after its parent (`Tree`) for a minted row to be
nobody's member yet. Its first lemmas say field by field what each kind of step writes; every later
lemma starts from those.

`Accounts` is the marks and the log. `Lattice` holds at rest only; inside a command exactly one mark
may be wrong, that of the row a climb is at, and `MarksFit` says in which direction: a raising climb is
at a row that asks for its mark, a lowering one at a row that may carry it for nothing. That each climb
may stop early is then a fact about cardinalities: a count that was above zero before the flag, or
stays above zero after, leaves the parent's mark as it was (`LayersFit`). The rest is why a flip may
orphan an interior at all. A command is gated on the history count of one layer; that no edit is lost
needs every dirty row to have an entry (`EditsLogged`), and no mark to survive under a row whose mark is
down (`InteriorQuiet`). A revert has no gate. It pops the last entry, and may flip a backing over an
opened interior because every entry of that interior would be younger: `PastsPrecede`, which
`LogNamesLiveRows` and `OrphansAreClean` both rest on, since a row may only die after all its entries
are gone. "Below", at any depth, is said without recursion, by the sets closed under parents, and
what would be an induction down the tree takes the greatest row of a set that has no greatest
(`NoneRises`, from the well-foundedness of the naturals).

Only model-checked: everything stated with the recursive walks (`ReadsAreExact`, `SavesTheDocument`,
`UndoIsExact`), whose values for every arena need induction over data; and of `CommandReturns`, which is
liveness, that a running command always has a step to take (`ENABLED`) and that fairness then takes it.
That it cannot take steps for ever is proved: a climb goes to a row minted earlier, and a generation of
the orphan walk leaves fewer rows alive.

## 6. The revising editor with source transfer

`Transfer` is the same editor with the commands `Revise` leaves out: records copied and moved by
designation, payloads designated over a record, whole records imported from another document, and
first-class interiors of designated payloads, whose rows are edited like anything scanned. A command
is one step here; its climbs are the operators `RaiseMark` and `LowerMark`. Descending is the part
taken apart: `BeginScan`, one step for each row minted, the layer's own store and the run's, the
publication, and beside each of them its refusal, since each allocation may fail and what came before
must then go.

| property | says |
|---|---|
| `DescentsPublishWhole` | a descent publishes whole or not at all, whichever of its allocations is refused, and may be tried again |
| `MovesUnwindWhole` | a move's one log entry unwinds both its rows, lies below every entry of its destination, and no unwinding meets a row or a layer that is gone |
| `OrphansAreClean` | no edit and no pending entry goes out of reach with an interior |
| `SaveIsExact` | a copied or imported record rides as its first bytes until something inside it is edited, and its rows speak from then on |
| `UndoIsExact` | the editor is an `EditHistory` of saved bytes |
| `FamiliesNeverMix` | a record with no place in any zone stays in a state whose readers ask for none |

Three of them do not hold of the code in full. Each has a run that expects the violation and a finding
that quotes the documentation it contradicts:

- `transfer_moves`: a move marks the history of its source alone, so the destination's container looks
  untouched to the interior gate; its payload may be replaced over the moved record, which is lost.
- `transfer_clears`: `clear_edit` has no interior gate, on the argument that a replaced payload's rows
  refuse every edit; the rows of a designated payload do not, and are orphaned with their edits.
- `transfer_framing`: `copy_payload` over an inserted record gives a row without a source offset a
  state whose readers unwrap one, unchecked.

The run `transfer` withholds exactly the flips these three need (`Withheld`: a payload replaced over a
container something was moved into, a designated payload cleared over edited rows, a designation over
an authored record) and shows that everything else keeps the five properties it checks. It takes one
message with one record in it as its source, at most 4 rows, 2 log entries, 1 stored value and a `Cap`
of 12 (317,468 states). Copies and moves go to tails and after rows; that a row may go to the head of a
container is `revise_tree`'s subject. The violation runs need 3 log entries at most. The safety of `Revise`'s
own commands is the subject of section 5, at larger bounds. Nothing is proved about these two modules:
their climbs and walks are recursive.

## 7. What is not modelled

- *Pure parts*: the scalar matrix, the vocabulary types, slice reads, admission, source designation,
  the message builder. They keep no state.
- *Single-pass readers and indexes* (cursors, traverse, inspect, retain, collect, survey): sequential
  parses into a position or a row table. The record grammar they read is the one `ScanReference` and
  `RewriteTwins!CursorView` state.
- *Memory* outside a descent: arena growth, the niche encodings of rows and slots, the width of row
  ids. A row, a layer or a value is there once pushed.
- *Fixed payload bytes* are read as little-endian words by the sink; the model hands the bytes over.
- *In the editor*: staged payload frames, the grouped dialect's group rows, the canonical standard's
  save arms, priced ledgers, and the editors without a log. The grouped core is a second text of the
  groupless one (20,000 lines against 17,000) with one more row kind.
- *In the rewriters*: transfer actions, source transfer in the splicer's answers, the in-place
  forms; over a replayed source the
  survey and grab faces of the pump, minted prefixes, the end of the offset space, the editors.
- *Route, select and rewire*: the scan drive of section 2 with the matcher of section 3 beside it;
  rewire also has the transcoder's stage and held words. Planned, below. The groupless transcoder is
  the grouped one's text without the groups and their suppression.
- *Fixed slabs*: the same tables under the caller's capacity.

## 8. Plan

In this order:

1. `Route`, the scan drive with a matcher frame per container, and `Rewire`, which joins it with the
   transcoder's stage and held words.
2. The transfer actions, the in-place forms, and the online machines over `ReplayScript`, with minted
   prefixes.
3. `Editor`, the core without a log, as an instance of `Revise` with undo removed; group rows as a
   second container kind; the canonical save arms; staged frames.
4. `FixedPatch`: commands refused at the slab's capacity leave the tables as they were.
5. Proofs: the descents of `Transfer`, once its climbs and walks are written without recursion;
   the types and the staging ledger of `Transcode`, over the kernel's lemmas.

Beyond the provers, and staying with TLC: liveness under fairness, what a recursive definition
computes for every input (`Parse`, the rewriting reference, the walks, the save passes), and refinements
that go through one. `Spellings` of `PathPrograms` and `Widths` of `Rewrite` are the exceptions, recursive
functions on which the proofs lean: of the first they need one equation and no induction over what it
computes, and of the second the equation itself is derived, from the well-ordering of the naturals.

## 9. Running the checks

`tlc -config MCScanChunks.cfg MCScan` checks one run: `PROJECT.json` lists the module and the
configuration of each. `tlapm ScanProofs.tla`, and likewise `CarryProofs`, `RootProofs`,
`MatcherProofs`, `ReplayProofs`, `ReviseProofs`, `InteriorProofs` and `MarkProofs`, check the proofs, in a
few minutes each at most. Each run ends within four minutes
on two workers.
