---------------------------- MODULE ContentPipeline ----------------------------
(***************************************************************************)
(* What becomes of the text of a repository: a getter worker checks it     *)
(* out, reads blobs from its cat-file process (internal/git/catfile.go)    *)
(* and processes them (Runner.processBlob), or turns git diff's output     *)
(* into windows (Runner.runDiff); the chunks wait on the stream; a scanner *)
(* takes each through the rules it holds at that moment and publishes what *)
(* it finds, while the rules may be edited; the reports print the findings *)
(* with the lines around them.                                             *)
(*                                                                         *)
(* GetterPool, BlobPool and ScannerPool have the same steps without the    *)
(* text, but with all the workers, the queues and the cancellation.        *)
(***************************************************************************)
EXTENDS Checkout, FileFilter, DiffPatches, RuleWatch

CONSTANTS
  Config,       \* the inputs tried, see ConfigType
  MaxDeliver    \* of HARPORIS_CHUNKS

BlobType == [path : Path, data : Seq(Byte), missing : BOOLEAN]
HunkType == [start : Nat, lines : Seq(Seq(Byte))]
DiffType == [old : Seq(Name) \ {<<>>}, path : Seq(Name) \ {<<>>}, deleted : BOOLEAN,
             hunks : Seq(HunkType)]

\* A line of a hunk that is in the new file.
InNewFile(line) == line # <<>> /\ Head(line) \in {" ", "+"}

\* What git diff prints: a hunk that has lines of the new file starts at one of them.  A
\* file renamed to a quoted path does not come from below a directory named "... b".
DiffInput(input) ==
  /\ input \in Seq(DiffType)
  /\ \A p \in DOMAIN input : InQuotes(input[p].path) /\ ~InQuotes(input[p].old) =>
       ToSet(Front(input[p].old)) \cap {AndB[name] : name \in Name} = {}
  /\ \A p \in DOMAIN input : \A h \in DOMAIN input[p].hunks :
       (\E line \in ToSet(input[p].hunks[h].lines) : InNewFile(line))
         => input[p].hunks[h].start > 0

\* A configuration: the source, what is scanned ("blobs" or "diff") with its input, the
\* .gitattributes, the rule file at the start, and three bounds: whether the file is
\* edited, publishes fail, and cat-file dies.
ConfigType ==
  \A c \in Config :
    /\ \/ c.mode = "blobs" /\ c.input \in Seq(BlobType)
       \/ c.mode = "diff" /\ DiffInput(c.input)
    /\ c.rules \in Version
    /\ {c.edits, c.publishFails, c.catFileDies} \subseteq BOOLEAN

ASSUME PipelineAssumption == MaxDeliver \in Nat \ {0} /\ ConfigType

VARIABLES
  config,
  todo,       \* blob jobs the worker has not taken, or patches it is not done with
  stage,      \* the worker: "off", "next", "header", "sniff", "lines", "publish", "over"
  item,       \* the source in hand: <<blob, 0>> or <<patch, hunk>>
  pipe,       \* cat-file's stdout, as far as it was not read
  alive,      \* cat-file runs
  remaining,  \* boundedReader.remaining
  buffer,     \* bytes of the blob the worker read and has not split
  builder,    \* the Builder, with lineNo in its total
  outbox,     \* chunks left to publish
  outcome,    \* what each blob or patch was counted as: scanned, skipped, error
  excuse      \* history: blobs and patches that met a fault

getterVars == <<todo, stage, item, pipe, alive, remaining, buffer, builder, outbox,
                outcome, excuse>>

VARIABLES
  stream,     \* chunks ever published
  tries,      \* deliveries of each chunk so far
  used,       \* the packs each chunk was scanned with
  settled,    \* chunks acknowledged
  published   \* findings on HARPORIS_FINDINGS

scannerVars == <<tries, used, settled, published>>
vars == <<config, checkoutVars, getterVars, stream, scannerVars, watchVars>>

None == <<0, 0>>

Init ==
  /\ config \in Config
  /\ CheckoutInit(config.source)
  /\ WatchInit(config.rules)
  /\ todo = <<>> /\ stage = "off" /\ item = None
  /\ pipe = <<>> /\ alive = TRUE /\ remaining = 0 /\ buffer = <<>>
  /\ builder = Begin /\ outbox = <<>>
  /\ outcome = <<>> /\ excuse = {}
  /\ stream = {} /\ tries = <<>> /\ used = <<>> /\ settled = {} /\ published = {}

-----------------------------------------------------------------------------
(* The input, and the truth about it.                                      *)

\* What git diff prints for patch p.
Rendered(p) ==
  LET patch == config.input[p]
      lines(hunk) == [i \in DOMAIN hunk.lines |-> [tag |-> "text", text |-> hunk.lines[i]]]
  IN  <<[tag |-> "diff", job |-> p, old |-> patch.old, path |-> patch.path]>>
      \o (IF patch.deleted THEN <<[tag |-> "deleted"]>> ELSE <<>>)
      \o <<[tag |-> "index"], [tag |-> "text", text |-> <<"-", "-", "-", " ", "a">>],
           [tag |-> "text", text |-> <<"+", "+", "+", " ", "b">>]>>
      \o FlattenSeq([h \in DOMAIN patch.hunks |->
            <<[tag |-> "hunk", src |-> <<p, h>>, start |-> patch.hunks[h].start]>>
            \o lines(patch.hunks[h])])

\* git diff's output.
Output == FlattenSeq([p \in DOMAIN config.input |-> Rendered(p)])

\* The i-th smallest of a set.
Nth(S, i) == CHOOSE e \in S : Cardinality({x \in S : x <= e}) = i

\* The lines of a blob: what lies between the newlines, without a return that a newline
\* follows.
BlobLines(data) ==
  LET nls   == {i \in DOMAIN data : data[i] = Newline}
      ends  == nls \cup (IF data # <<>> /\ Last(data) # Newline THEN {Len(data) + 1} ELSE {})
      prev(i) == IF i = 1 THEN 0 ELSE Nth(ends, i - 1)
      raw(i)  == SubSeq(data, prev(i) + 1, Nth(ends, i) - 1)
  IN  [i \in 1..Cardinality(ends) |->
         IF Nth(ends, i) \in nls THEN WithoutReturn(raw(i)) ELSE raw(i)]

\* The lines of a hunk that are in the new file, without a return at the end.
HunkLines(hunk) ==
  LET kept == {i \in DOMAIN hunk.lines : InNewFile(hunk.lines[i])}
  IN  [i \in 1..Cardinality(kept) |-> WithoutReturn(Tail(hunk.lines[Nth(kept, i)]))]

\* The numbered lines of a source.
TrueLines(src) ==
  LET first == IF config.mode = "blobs" THEN 1 ELSE config.input[src[1]].hunks[src[2]].start
      lines == IF config.mode = "blobs" THEN BlobLines(config.input[src[1]].data)
               ELSE HunkLines(config.input[src[1]].hunks[src[2]])
  IN  [i \in DOMAIN lines |-> [n |-> first + i - 1, text |-> lines[i]]]

Sources ==
  IF config.mode = "blobs" THEN {<<i, 0>> : i \in DOMAIN config.input}
  ELSE UNION {{<<p, h>> : h \in DOMAIN config.input[p].hunks} : p \in DOMAIN config.input}

-----------------------------------------------------------------------------
(* The getter.                                                             *)

getterSame == <<config, checkoutVars, scannerVars, watchVars>>

\* runBlobWalk's worker or runDiff starts once the repository is there.
Start ==
  /\ stage = "off" /\ phase = "ready"
  /\ todo' = IF config.mode = "blobs" THEN [i \in DOMAIN config.input |-> i]
             ELSE ParseUnifiedDiff(Output)
  /\ stage' = "next" /\ item' = None
  /\ UNCHANGED <<getterSame, pipe, alive, remaining, buffer, builder, outbox, outcome,
                 excuse, stream>>

\* The whole diff scan fails if git diff does, or if a line of its output is too long.
DiffFails ==
  /\ stage = "off" /\ phase = "ready" /\ config.mode = "diff"
  /\ stage' = "over"
  /\ UNCHANGED <<getterSame, todo, item, pipe, alive, remaining, buffer, builder, outbox,
                 outcome, excuse, stream>>

\* The counters of the scan, one of them for the sake of this blob or patch.
Counted(job, how) == outcome' = [j \in DOMAIN outcome \cup {job} |->
                                   IF j = job THEN how ELSE outcome[j]]

Job == config.input[Head(todo)]

\* A job the filter refuses without reading it.
SkipByName ==
  /\ stage = "next" /\ config.mode = "blobs" /\ todo # <<>>
  /\ ~PassesByName(Job.path, Len(Job.data), config.attributes)
  /\ Counted(<<Head(todo), 0>>, {"skipped"})
  /\ todo' = Tail(todo)
  /\ UNCHANGED <<getterSame, stage, item, pipe, alive, remaining, buffer, builder, outbox,
                 excuse, stream>>

\* Batch.Read finds the object: cat-file wrote a header, the content and a newline.
\* One that dies stops anywhere in the content.
ReadBlob ==
  /\ stage = "next" /\ config.mode = "blobs" /\ todo # <<>>
  /\ PassesByName(Job.path, Len(Job.data), config.attributes)
  /\ alive /\ ~Job.missing
  /\ \E n \in 0..Len(Job.data) :
       /\ n < Len(Job.data) => config.catFileDies
       /\ alive' = (n = Len(Job.data))
       /\ pipe' = pipe \o <<"HEADER">>
                    \o (IF alive' THEN Append(Job.data, Newline) ELSE SubSeq(Job.data, 1, n))
       /\ excuse' = IF alive' THEN excuse ELSE excuse \cup {<<Head(todo), 0>>}
  /\ item' = <<Head(todo), 0>> /\ todo' = Tail(todo)
  /\ remaining' = Len(Job.data)
  /\ stage' = "header"
  /\ UNCHANGED <<getterSame, buffer, builder, outbox, outcome, stream>>

\* The object is missing, or cat-file is gone or goes now: no reader is opened.
ReadFails ==
  /\ stage = "next" /\ config.mode = "blobs" /\ todo # <<>>
  /\ PassesByName(Job.path, Len(Job.data), config.attributes)
  /\ ~alive \/ Job.missing \/ config.catFileDies
  /\ alive' = (alive /\ Job.missing)
  /\ Counted(<<Head(todo), 0>>, {"error"})
  /\ excuse' = excuse \cup {<<Head(todo), 0>>}
  /\ todo' = Tail(todo)
  /\ UNCHANGED <<getterSame, stage, item, pipe, remaining, buffer, builder, outbox, stream>>

\* The next line of the stream, taken for a header: anything else than one is an error,
\* and no reader is opened.
Header ==
  /\ stage = "header"
  /\ builder' = Begin /\ buffer' = <<>>
  /\ IF Head(pipe) = "HEADER"
       THEN stage' = "sniff" /\ pipe' = Tail(pipe) /\ UNCHANGED outcome
       ELSE stage' = "next" /\ pipe' = NextLine(pipe).rest /\ Counted(item, {"error"})
  /\ UNCHANGED <<getterSame, todo, item, alive, remaining, outbox, excuse, stream>>

\* What boundedReader still gives: what remains, as far as the process wrote it.
Available == IF remaining <= Len(pipe) THEN remaining ELSE Len(pipe)

\* Mutant: the newline after the content is left in the stream.
NewlineLeft == SubSeq(pipe, Available + 1, Len(pipe))

\* boundedReader.Close: the unread bytes and the trailing newline.
Drained == SubSeq(pipe, Available + 2, Len(pipe))

\* processBlob returns; its reader is closed.
EndBlob(how) ==
  /\ Counted(item, how)
  /\ pipe' = Drained
  /\ remaining' = 0 /\ buffer' = <<>> /\ outbox' = <<>>
  /\ stage' = "next"

Sample == SubSeq(pipe, 1, IF SniffBytes <= Available THEN SniffBytes ELSE Available)

\* The sniff: a blob with a NUL byte in the sample is not scanned.  It counts as skipped,
\* and as the nil that processBlob returns is no error, as scanned too.
SniffRefuses ==
  /\ stage = "sniff" /\ ~PassesSniff(Sample, Nul)
  /\ EndBlob({"skipped", "scanned"})
  /\ UNCHANGED <<getterSame, todo, item, alive, builder, excuse, stream>>

\* The sample is put back in front of the rest.
Sniff ==
  /\ stage = "sniff" /\ PassesSniff(Sample, Nul)
  /\ buffer' = Sample
  /\ pipe' = SubSeq(pipe, Len(Sample) + 1, Len(pipe))
  /\ remaining' = remaining - Len(Sample)
  /\ stage' = "lines"
  /\ UNCHANGED <<getterSame, todo, item, alive, builder, outbox, outcome, excuse, stream>>

Unsplit == buffer \o SubSeq(pipe, 1, Available)

\* scanner.Scan and builder.AddLine, one line.  The end of the process's output passes
\* for the end of the blob.
Line ==
  /\ stage = "lines" /\ Unsplit # <<>> /\ ~TooLong(Unsplit)
  /\ buffer' = NextLine(Unsplit).rest
  /\ pipe' = SubSeq(pipe, Available + 1, Len(pipe))
  /\ remaining' = remaining - Available
  /\ builder' = AddLine(builder, [n |-> builder.total + 1, text |-> NextLine(Unsplit).text])
  /\ UNCHANGED <<getterSame, todo, stage, item, alive, outbox, outcome, excuse, stream>>

\* A line longer than the scanner's buffer: nothing of the blob is published.
LineTooLong ==
  /\ stage = "lines" /\ Unsplit # <<>> /\ TooLong(Unsplit)
  /\ EndBlob({"error"})
  /\ UNCHANGED <<getterSame, todo, item, alive, builder, excuse, stream>>

\* The chunks of a source, as the scanner sees them.
Boxed(src, path, chunks) ==
  [i \in DOMAIN chunks |->
     [id |-> <<src, chunks[i].index>>, path |-> path, rows |-> chunks[i].rows]]

EndOfText ==
  /\ stage = "lines" /\ Unsplit = <<>>
  /\ outbox' = Boxed(item, config.input[item[1]].path, Finish(builder))
  /\ stage' = "publish"
  /\ UNCHANGED <<getterSame, todo, item, pipe, alive, remaining, buffer, builder, outcome,
                 excuse, stream>>

-----------------------------------------------------------------------------
(* runDiff and publishDiffPatch.                                           *)

AtPatch == stage = "next" /\ config.mode = "diff" /\ todo # <<>>
ToScan(patch) == ~patch.deleted /\ PassesByName(patch.path, 0, config.attributes)

\* A patch that deletes its file is passed over.
SkipDeleted ==
  /\ AtPatch /\ Head(todo).deleted
  /\ todo' = Tail(todo)
  /\ UNCHANGED <<getterSame, stage, item, pipe, alive, remaining, buffer, builder, outbox,
                 outcome, excuse, stream>>

\* A patch the filter refuses.
SkipPatch ==
  /\ AtPatch /\ ~Head(todo).deleted /\ ~ToScan(Head(todo))
  /\ Counted(<<Head(todo).job, 0>>, {"skipped"})
  /\ todo' = Tail(todo)
  /\ UNCHANGED <<getterSame, stage, item, pipe, alive, remaining, buffer, builder, outbox,
                 excuse, stream>>

\* One hunk of the patch becomes chunks, with a Builder of its own and the patch's path.
TakeHunk ==
  /\ AtPatch /\ ToScan(Head(todo)) /\ Head(todo).hunks # <<>>
  /\ LET hunk == Head(Head(todo).hunks)
     IN  /\ item' = hunk.src
         /\ outbox' = Boxed(hunk.src, Head(todo).path, Finish(AddLines(hunk.rows)))
  /\ todo' = [todo EXCEPT ![1].hunks = Tail(@)]
  /\ stage' = "publish"
  /\ UNCHANGED <<getterSame, pipe, alive, remaining, buffer, builder, outcome, excuse, stream>>

\* A patch whose hunks are all published.
PatchDone ==
  /\ AtPatch /\ ToScan(Head(todo)) /\ Head(todo).hunks = <<>>
  /\ Counted(<<Head(todo).job, 0>>, {"scanned"})
  /\ todo' = Tail(todo)
  /\ UNCHANGED <<getterSame, stage, item, pipe, alive, remaining, buffer, builder, outbox,
                 excuse, stream>>

-----------------------------------------------------------------------------

\* PublishChunk, in order.
Publish ==
  /\ stage = "publish" /\ outbox # <<>>
  /\ stream' = stream \cup {Head(outbox)}
  /\ outbox' = Tail(outbox)
  /\ UNCHANGED <<getterSame, todo, stage, item, pipe, alive, remaining, buffer, builder,
                 outcome, excuse>>

\* It fails, whether or not the stream got it: the chunks after it stay unpublished, for a
\* patch those of its other hunks too.
PublishFails ==
  /\ stage = "publish" /\ outbox # <<>> /\ config.publishFails
  /\ \/ /\ config.mode = "blobs"
        /\ EndBlob({"error"})
        /\ excuse' = excuse \cup {item}
        /\ UNCHANGED todo
     \/ /\ config.mode = "diff"
        /\ Counted(<<Head(todo).job, 0>>, {"error"})
        /\ excuse' = excuse \cup {<<Head(todo).job, 0>>}
        /\ todo' = Tail(todo) /\ stage' = "next" /\ outbox' = <<>>
        /\ UNCHANGED <<pipe, remaining, buffer>>
  /\ stream' \in {stream, stream \cup {Head(outbox)}}
  /\ UNCHANGED <<getterSame, item, alive, builder>>

\* A blob is done, or a hunk: the patch goes on with its next one.
AllPublished ==
  /\ stage = "publish" /\ outbox = <<>>
  /\ \/ config.mode = "blobs" /\ EndBlob({"scanned"})
     \/ /\ config.mode = "diff" /\ stage' = "next"
        /\ UNCHANGED <<pipe, remaining, buffer, outbox, outcome>>
  /\ UNCHANGED <<getterSame, todo, item, alive, builder, excuse, stream>>

\* The scan is over, and with it the checkout.
EndScan ==
  /\ \/ stage = "next" /\ todo = <<>>
     \/ stage = "over" /\ phase = "ready"
  /\ Leave
  /\ stage' = "over"
  /\ UNCHANGED <<config, watchVars, scannerVars, todo, item, pipe, alive, remaining, buffer,
                 builder, outbox, outcome, excuse, stream>>

Getter ==
  \/ Start \/ DiffFails \/ SkipByName \/ ReadBlob \/ ReadFails \/ Header
  \/ SniffRefuses \/ Sniff \/ Line \/ LineTooLong \/ EndOfText \/ SkipDeleted
  \/ SkipPatch \/ TakeHunk \/ PatchDone \/ Publish \/ PublishFails \/ AllPublished \/ EndScan

-----------------------------------------------------------------------------
(* The scanner: Handler.Handle.                                            *)

Of(fn, x, default) == IF x \in DOMAIN fn THEN fn[x] ELSE default
With(fn, x, v) == [y \in DOMAIN fn \cup {x} |-> IF y = x THEN v ELSE fn[y]]

\* A delivery of chunk c to a scanner that has its rules: it publishes what the hits are,
\* those the stream has not seen under their MsgId.
Handled(c, hits) ==
  /\ current # NoPack
  /\ c.id \notin settled
  /\ Of(tries, c.id, 0) < MaxDeliver
  /\ LET found == {FindingAt(c, current.pack[h[1]], h[2]) : h \in hits}
     IN  published' = published \cup
           {f \in found : \A g \in published : MsgID(g) # MsgID(f)}
  /\ used' = With(used, c.id, Of(used, c.id, {}) \cup {current})
  /\ UNCHANGED <<config, checkoutVars, getterVars, stream, watchVars>>

\* All of it is published and the chunk acknowledged.
Handle ==
  \E c \in stream :
    /\ current # NoPack
    /\ Handled(c, Hits(c, current.pack))
    /\ settled' = settled \cup {c.id}
    /\ UNCHANGED tries

\* A publish fails, of one finding: the chunk is delivered again, MaxDeliver times in all.
HandleFails ==
  \E c \in stream :
    /\ current # NoPack
    /\ config.publishFails
    /\ \E stop \in Hits(c, current.pack) :
         Handled(c, {h \in Hits(c, current.pack) : Earlier(h, stop)})
    /\ tries' = With(tries, c.id, Of(tries, c.id, 0) + 1)
    /\ UNCHANGED settled

Scanner == Handle \/ HandleFails

-----------------------------------------------------------------------------

pipelineSame == <<config, getterVars, stream, scannerVars>>

Next ==
  \/ Prepare /\ UNCHANGED <<pipelineSame, watchVars>>
  \/ Getter
  \/ Scanner
  \/ Watch /\ UNCHANGED <<pipelineSame, checkoutVars>>
  \/ config.edits /\ Edit /\ UNCHANGED <<pipelineSame, checkoutVars>>

\* The rule watcher's ticker never stops; nothing else is needed for the one liveness
\* property.
Spec == Init /\ [][Next]_vars /\ WF_vars(Watch /\ UNCHANGED <<pipelineSame, checkoutVars>>)

-----------------------------------------------------------------------------
(* Properties.                                                             *)

\* A hunk with an added line that starts with "++": LooksLikeFileLine takes it for a
\* file header, and every later line of the hunk is numbered one too low.
Misread(src) ==
  /\ config.mode = "diff"
  /\ \E line \in ToSet(config.input[src[1]].hunks[src[2]].lines) :
       LooksLikeFileLine(line) /\ Head(line) = "+"

\* git quoted a path of the file, or there is a " b/" in one: its patch has another path,
\* or is part of the patch before it.
MisfiledPatch(p) ==
  \/ InQuotes(p.old) \/ InQuotes(p.path)
  \/ HeaderPath(p.old, p.path) # p.path
Misfiled(job) == config.mode = "diff" /\ MisfiledPatch(config.input[job[1]])

\* The file of a source.
FileOf(src) == config.input[src[1]].path

\* cat-file died inside the blob: what it wrote passes for the whole, its last line for a
\* line.
Truncated(src) == src \in excuse /\ config.catFileDies

Numbers(lines) == {l.n : l \in ToSet(lines)}

\* Where a finding says it is, there it is: in the file it names, its line number and
\* offset lead to its secret, and every line the HTML, PDF and SARIF reports print around
\* it stands under its own number, whatever the chunk was cut from.  Four exceptions, all
\* the code's: the file named for a patch whose header was not understood, a
\* hunk that was misread, a blob that was truncated, and SARIF's snippet of a match of
\* several lines, which leaves out all but the first.
LinesAreTrue ==
  \A f \in published :
    LET truth == TrueLines(f.chunk[1])
        first == Head(truth).n
        text  == Append(Joined(SubSeq(truth, f.line - first + 1, f.lineEnd - first + 1)),
                        Newline)
    IN  /\ ~Misfiled(f.chunk[1]) => f.path = FileOf(f.chunk[1])
        /\ ~Misread(f.chunk[1]) /\ ~Truncated(f.chunk[1]) =>
             /\ \E i \in (f.offset + 1)..Len(text) :
                  IsPrefix(f.secret, SubSeq(text, i, Len(text)))
             /\ f.offset <= Len(f.matched)
             /\ [n |-> f.line, text |-> f.matched] \in ToSet(truth)
             /\ SarifRegion(f) \subseteq Numbers(truth)
             /\ ToSet(HtmlLines(f)) \cup ToSet(PdfLines(f)) \subseteq ToSet(truth)
             /\ f.line = f.lineEnd => ToSet(SarifLines(f)) \subseteq ToSet(truth)

\* Every chunk of the source was handled with this one pack.
ScannedWith(src, version) ==
  \A c \in stream : c.id[1] = src => c.id \in settled /\ used[c.id] = {version}

\* The matches of a rule in a whole file: the row each starts in and ends in, and its
\* offset in the first.
FileMatches(rows, rule) ==
  {[first |-> LineAt(LineStarts(rows), i - 1),
    last  |-> LineAt(LineStarts(rows), i + Len(rule.pattern) - 2),
    offset |-> i - 1 - LineStarts(rows)[LineAt(LineStarts(rows), i - 1)]] :
       i \in {j \in FindAll(Joined(rows), rule.pattern) :
                EntropyPasses(rule, SubSeq(Joined(rows), j + rule.from - 1, j + rule.to - 1))}}

\* The finding is this match; a match of several lines may be found as another one that
\* shares a line with it, when a chunk starts between them.
FoundAs(f, m, rows) ==
  \/ f.line = rows[m.first].n /\ f.offset = m.offset
  \/ m.first # m.last /\ f.line..f.lineEnd \cap (rows[m.first].n)..(rows[m.last].n) # {}

\* The bytes of a blob; a patch has none of its own.
BlobData(job) == IF config.mode = "blobs" THEN config.input[job[1]].data ELSE <<>>

\* The filter has something against the path, the size or the first bytes.
Refused(job) ==
  \/ ~PassesByName(FileOf(job), Len(BlobData(job)), config.attributes)
  \/ \E i \in DOMAIN BlobData(job) : i <= SniffBytes /\ BlobData(job)[i] = Nul

\* The patch the parser takes for deleted: it is, or one behind it whose header it missed.
TakenForDeleted(p) ==
  \E q \in p..Len(config.input) :
    /\ config.input[q].deleted
    /\ \A i \in (p + 1)..q : InQuotes(config.input[i].old) \/ InQuotes(config.input[i].path)

\* A blob or patch is counted as skipped only if the filter refuses its own path or bytes,
\* and as an error only if its own object, its own lines or the faults of the moment are
\* to blame: not the blob read before it.
CountedFor(job) ==
  /\ "error" \in outcome[job] =>
       \/ job \in excuse
       \/ config.mode = "blobs" /\ \E l \in ToSet(TrueLines(job)) : Len(l.text) >= MaxLine - 1
  /\ "skipped" \in outcome[job] => Refused(job)

\* Whatever the rules find in the whole file within OverlapLines + 1 lines was published.
AllFound(src) ==
  \A v \in Version : ScannedWith(src, v) /\ TrueLines(src) # <<>> =>
    \A rule \in ToSet(v.pack) :
      \A m \in FileMatches(TrueLines(src), rule) :
        m.last - m.first <= OverlapLines =>
          \E f \in published : /\ f.chunk[1] = src /\ f.rule = rule.id
                               /\ FoundAs(f, m, TrueLines(src))

\* Cutting a file into chunks hides nothing: what is counted as scanned, and not as skipped
\* too, has all its findings published once its chunks are handled; the other counters are
\* deserved, and in the end each blob and patch is counted.  Excepted are the code's own:
\* patches whose header was not understood, those that such a deletion is read into, and
\* hunks that were misread.
NothingMissed ==
  /\ \A job \in DOMAIN outcome : ~Misfiled(job) => CountedFor(job)
  /\ stage = "next" /\ todo = <<>> =>
       \A i \in DOMAIN config.input :
         \/ <<i, 0>> \in DOMAIN outcome
         \/ config.mode = "diff" /\ (Misfiled(<<i, 0>>) \/ TakenForDeleted(i))
  /\ \A src \in Sources :
       LET job == <<src[1], 0>>
       IN  (/\ job \in DOMAIN outcome /\ outcome[job] = {"scanned"}
            /\ job \notin excuse /\ ~Misread(src) /\ ~Misfiled(src)) => AllFound(src)

\* A checkout leaves no credentials behind once git clone is done with them, and no clone
\* but one that was asked for, whichever step failed; only a killed process leaves some.
NothingIsLeftBehind ==
  /\ secrets # {} => phase \in {"auth", "clone", "killed"}
  /\ phase = "failed" => ~dest
  /\ phase = "done" => dest = (~source.local /\ ~source.cleanup)

\* An edit of the rules is picked up: once the file is left alone, the scanner serves what
\* it holds.  Unless it does not load, or the edit fell between LoadFile and the second
\* stat, whose mtime hides it for good.
EditsAreSeen == <>[](watch = "gone" \/ unseen \/ ~Usable(file) \/ current = file)

===============================================================================
