--------------------------- MODULE MCContentPipeline ---------------------------
(* Instances of ContentPipeline for TLC: blobs whose secrets lie on chunk borders, next
   to carriage returns, NUL bytes, long lines and missing objects; diffs; edits of the
   rules; checkouts. *)
EXTENDS ContentPipeline, TLC

MCByte == {"NL", "CR", "NUL", "k", "s", "t", "x", " ", "+", "-", "\\"}

K == {"k"}
ST == {"s", "t"}

\* A key with two symbols behind it, and two keys on lines of their own.
Single == [id |-> "single", pattern |-> <<K, ST, ST>>, from |-> 2, to |-> 3,
           entropy |-> TRUE, positive |-> {<<"k", "s", "t">>}, negative |-> {<<"k">>}]
Double == [id |-> "double", pattern |-> <<K, {"NL"}, K>>, from |-> 1, to |-> 3,
           entropy |-> FALSE, positive |-> {}, negative |-> {<<"k", "k">>}]
Wrong  == [Single EXCEPT !.negative = {<<"k", "s", "t">>}]

RuleFile(pack) == [readable |-> TRUE, wellFormed |-> TRUE, pack |-> pack]

Both    == RuleFile(<<Single, Double>>)
One     == RuleFile(<<Single>>)
Invalid == RuleFile(<<Wrong>>)
Broken  == [RuleFile(<<>>) EXCEPT !.wellFormed = FALSE]
Missing == [RuleFile(<<>>) EXCEPT !.readable = FALSE]

MCVersion == {Both, One, Invalid, Broken, Missing}

Local == [local |-> TRUE, scheme |-> "none", creds |-> {}, cleanup |-> TRUE]
Remote(scheme, creds, cleanup) ==
  [local |-> FALSE, scheme |-> scheme, creds |-> creds, cleanup |-> cleanup]

Base == [source |-> Local, mode |-> "blobs", input |-> <<>>, attributes |-> <<>>,
         rules |-> Both, edits |-> FALSE, publishFails |-> FALSE, catFileDies |-> FALSE]

Blob(name, data) ==
  [path |-> <<"dir", name>>, data |-> data, missing |-> FALSE]

Texts1 ==
  {<<"k", "s", "t", "NL", "x", "CR", "NL", "k", "NL", "k", "s", "s">>,
   <<"k", "NL", "k", "NL", "k", "t", "s", "CR">>,
   <<"x", "NL", "NL", "k", "CR", "NL", "k", "s", "t", "NL">>,
   <<"x", "x", "x", "NL", "x", "x", "x", "NL", "k", "s", "t">>,
   <<"NL", "k", "s", "t", "k", "t", "s">>,
   <<>>}

Plain  == Blob("a", <<"k", "s", "t", "NL", "k", "NL", "k">>)
Nulled == Blob("b", <<"x", "NUL", "k", "NL", "x">>)
Late   == Blob("c", <<"k", "s", "t", "NL", "NUL", "x">>)
Long   == Blob("d", <<"x", "NL", "x", "x", "x", "x", "x", "x", "x", "x", "NL", "k">>)
Image  == Blob("png", <<"k", "s", "t">>)
Binary == Blob("bin", <<"k", "s", "t">>)
Vendor == [Plain EXCEPT !.path = <<"vendor", "a">>]
Lost   == [Plain EXCEPT !.missing = TRUE]

\* "[ab]*" is binary, but "*/a" is not.
Attributes == <<[glob |-> <<{"a", "bin"}>>, attrs |-> <<"binary">>],
                [glob |-> <<{"dir", "vendor"}, {"a"}>>, attrs |-> <<"diff", "text">>]>>

Hunk(start, lines) == [start |-> start, lines |-> lines]
Patch(name, deleted, hunks) ==
  [old |-> <<"dir", name>>, path |-> <<"dir", name>>, deleted |-> deleted, hunks |-> hunks]

Hunks == <<Hunk(3, <<<<" ", "x", "CR">>, <<"-", "k", "s", "t">>, <<"+", "k", "s", "t">>, <<" ", "k">>,
                     <<"+", "k">>, <<"\\">> >>),
           Hunk(9, <<<<"-", "-", "-", "x">>, <<"+", "k", "t", "s">>>>)>>
PlusPlus == <<Hunk(1, <<<<"+", "+", "+", "x">>, <<"+", "k", "s", "t">>>>)>>

\* Names that git quotes, and a directory whose name ends in " b".
Key     == <<Hunk(1, <<<<"+", "k", "s", "t">>>>)>>
Moved   == [Patch("a", FALSE, Key) EXCEPT !.old = <<"dir", "x">>]
Below   == [Patch("a", FALSE, Key) EXCEPT !.path = <<"dir b", "a">>, !.old = <<"dir b", "a">>]
Garbled ==
  {<<Patch("q", FALSE, Key), Patch("a", FALSE, Key), Patch("q", FALSE, Hunks)>>,
   <<Patch("a", FALSE, Key), Patch("q", TRUE, <<>>), Patch("b", FALSE, Key)>>,
   <<Below, Patch("png", FALSE, Key), Patch("q", FALSE, Key), Moved>>}

MCConfig ==
  {[Base EXCEPT !.input = <<Blob("a", t)>>] : t \in Texts1}
    \cup {[Base EXCEPT !.input = <<first, Plain>>, !.attributes = Attributes] :
            first \in {Nulled, Late, Long, Image, Binary, Vendor, Lost}}
    \cup {[Base EXCEPT !.input = <<Late, Plain>>, !.catFileDies = TRUE],
          [Base EXCEPT !.input = <<Plain>>, !.publishFails = TRUE],
          [Base EXCEPT !.input = <<Blob("a", <<"k", "NL", "k", "s", "t">>)>>, !.edits = TRUE]}
    \cup {[Base EXCEPT !.mode = "diff", !.input = d] :
            d \in Garbled \cup {<<Patch("a", FALSE, Hunks), Patch("b", TRUE, <<>>), Patch("png", FALSE, PlusPlus)>>,
                   <<Patch("b", FALSE, PlusPlus)>>}}
    \cup {[Base EXCEPT !.mode = "diff", !.publishFails = TRUE,
                       !.input = <<Patch("a", FALSE, Hunks)>>]}
    \cup {[Base EXCEPT !.source = s] :
            s \in {Remote("https", {"token"}, FALSE), Remote("https", {}, TRUE),
                   Remote("file", {"basic"}, TRUE), Remote("https", {"header"}, TRUE),
                   Remote("ssh", {"key", "hosts"}, TRUE), Remote("ssh", {"hosts"}, FALSE)}}

\* "vendor/a/" and "no*".
MCExclusions == {[dir |-> TRUE, glob |-> <<{"vendor"}, {"a"}>>],
                 [dir |-> FALSE, glob |-> <<{"none"}>>]}

MCAndB == [name \in {"dir", "vendor", "dir b", "a", "b", "c", "d", "x", "q", "png", "bin"} |->
             name \o " b"]

===============================================================================
