-------------------------------- MODULE Shards --------------------------------
(***************************************************************************)
(* A corpus of small files packed into tar shards (shards.py) and          *)
(* published as a dataset (nawat shard, cli.py): packing file by file in   *)
(* sorted order while the corpus may still change, what may happen to a    *)
(* shard afterwards, verifying it against its index, and unpacking.        *)
(* A file is one part of a sample: an image, and the label beside it.      *)
(***************************************************************************)
EXTENDS Naturals, SequencesExt

CONSTANTS
  Samples,    \* how many samples the corpus may hold
  Sizes,      \* the sizes a file may have
  ShardSize   \* shard_size

VARIABLES
  corpus,     \* the source directory: its files, sorted
  packer,     \* pack: where it is, the file it is at, and the size it was told of it
  current,    \* current: files and content_bytes of the open shard
  shards,     \* index.shards, and index.total_files beside it
  tars,       \* the shards on disk: the files in each, and whether one was changed since
  reader      \* verify and unpack: what they found

vars == <<corpus, packer, current, shards, tars, reader>>

-----------------------------------------------------------------------------

File == [sample : 1..Samples, part : {"image", "label"}, size : Sizes]

\* Sorted: a sample's files stand beside each other.
Corpora == {[i \in 1..(2 * Samples) |-> [sample |-> (i + 1) \div 2, part |-> IF i % 2 = 1 THEN "image" ELSE "label", size |-> size[i]]] :
              size \in [1..(2 * Samples) -> Sizes]}

Bytes(files) == FoldSeq(LAMBDA file, total : file.size + total, 0, files)

At(place) == packer.at = place
Open == current.files > 0
Path == corpus[packer.number]
Goto(place) == packer' = [packer EXCEPT !.at = place]

-----------------------------------------------------------------------------
(* pack.                                                                   *)

Stat ==
  /\ At("packing") /\ packer.number <= Len(corpus)
  /\ packer' = [packer EXCEPT !.at = IF Path.size > ShardSize THEN "failed" ELSE "told", !.size = Path.size]
  /\ UNCHANGED <<corpus, current, shards, tars, reader>>

\* close_current: the shard's entry joins the index.
Closed(entries) == IF Open THEN Append(entries, [files |-> current.files, bytes |-> Bytes(tars[Len(tars)].files)]) ELSE entries

\* Faulty: a shard closes when it is over.
FullWhenOver == current.content >= ShardSize

Full == current.content + packer.size > ShardSize

\* The file as it is by now, not as it was when its size was asked for.
Add ==
  /\ At("told")
  /\ IF ~Open \/ Full
     THEN /\ shards' = [shards EXCEPT !.entries = Closed(@), !.total = @ + 1]
          /\ tars' = Append(tars, [files |-> <<Path>>, changed |-> FALSE])
          /\ current' = [files |-> 1, content |-> packer.size]
     ELSE /\ shards' = [shards EXCEPT !.total = @ + 1]
          /\ tars' = [tars EXCEPT ![Len(tars)].files = Append(@, Path)]
          /\ current' = [files |-> current.files + 1, content |-> current.content + packer.size]
  /\ packer' = [packer EXCEPT !.at = "packing", !.number = @ + 1]
  /\ UNCHANGED <<corpus, reader>>

\* Faulty: the shard that is open in the end is left out of the index.
FinishUnclosed ==
  /\ At("packing") /\ packer.number > Len(corpus)
  /\ Goto("packed")
  /\ UNCHANGED <<corpus, current, shards, tars, reader>>

Finish ==
  /\ At("packing") /\ packer.number > Len(corpus)
  /\ shards' = [shards EXCEPT !.entries = Closed(@)]
  /\ Goto("packed")
  /\ UNCHANGED <<corpus, current, tars, reader>>

\* The corpus is still being written to: a file has grown, once.
Grow ==
  /\ packer.at \in {"packing", "told"} /\ ~packer.grown
  /\ \E i \in DOMAIN corpus, size \in Sizes :
       corpus[i].size < size /\ corpus' = [corpus EXCEPT ![i].size = size]
  /\ packer' = [packer EXCEPT !.grown = TRUE]
  /\ UNCHANGED <<current, shards, tars, reader>>

-----------------------------------------------------------------------------
(* What may happen to the shards, once: one is lost, cut short, or another *)
(* packing has left its own in the place of one.                           *)

Lose ==
  /\ At("packed") /\ reader.at = "none"
  /\ \E i \in DOMAIN tars : tars' = [tars EXCEPT ![i] = [files |-> <<>>, changed |-> TRUE]]
  /\ Goto("harmed")
  /\ UNCHANGED <<corpus, current, shards, reader>>

Cut ==
  /\ At("packed") /\ reader.at = "none"
  /\ \E i \in DOMAIN tars : tars' = [tars EXCEPT ![i] = [files |-> Front(@.files), changed |-> TRUE]]
  /\ Goto("harmed")
  /\ UNCHANGED <<corpus, current, shards, reader>>

-----------------------------------------------------------------------------
(* verify, and unpack after it.                                            *)

\* A shard is there, has the bytes and the number of files of its entry.
Matches(i) ==
  /\ tars[i].files # <<>>
  /\ Bytes(tars[i].files) = shards.entries[i].bytes
  /\ Len(tars[i].files) = shards.entries[i].files

Truthful ==
  /\ \A i \in DOMAIN shards.entries : Matches(i)
  /\ FoldSeq(LAMBDA entry, n : n + entry.files, 0, shards.entries) = shards.total

Verify ==
  /\ packer.at \in {"packed", "harmed"} /\ reader.at = "none"
  /\ reader' = [reader EXCEPT !.at = IF Truthful THEN "verified" ELSE "refused"]
  /\ UNCHANGED <<corpus, packer, current, shards, tars>>

Unpack ==
  /\ reader.at = "verified"
  /\ reader' = [at |-> "unpacked", restored |-> FlattenSeq([i \in DOMAIN shards.entries |-> tars[i].files])]
  /\ UNCHANGED <<corpus, packer, current, shards, tars>>

-----------------------------------------------------------------------------

Init ==
  /\ corpus \in Corpora
  /\ packer = [at |-> "packing", number |-> 1, size |-> 0, grown |-> FALSE]
  /\ current = [files |-> 0, content |-> 0]
  /\ shards = [entries |-> <<>>, total |-> 0]
  /\ tars = <<>> /\ reader = [at |-> "none", restored |-> <<>>]

Next == Stat \/ Add \/ Finish \/ Grow \/ Lose \/ Cut \/ Verify \/ Unpack

Spec == Init /\ [][Next]_vars

-----------------------------------------------------------------------------
(* Properties.                                                             *)

\* Type correctness, and the index has every shard on disk but the one being written.
TypeOK ==
  /\ ToSet(corpus) \subseteq File
  /\ packer.at \in {"packing", "told", "failed", "packed", "harmed"} /\ packer.number \in 1..Len(corpus) + 1
  /\ packer.size \in Sizes \cup {0} /\ packer.grown \in BOOLEAN
  /\ shards.total \in 0..Len(corpus)
  /\ Len(tars) = Len(shards.entries) + (IF Open /\ packer.at \notin {"packed", "harmed"} THEN 1 ELSE 0)
  /\ \A i \in DOMAIN tars : ToSet(tars[i].files) \subseteq File /\ tars[i].changed \in BOOLEAN
  /\ reader.at \in {"none", "verified", "refused", "unpacked"} /\ ToSet(reader.restored) \subseteq File

\* shards.py:58-60: a shard is never over its size, but by what a file has grown while it was packed.
NeverOver == ~packer.grown => \A i \in DOMAIN tars : Bytes(tars[i].files) <= ShardSize

PathsOf(files) == [i \in DOMAIN files |-> <<files[i].sample, files[i].part>>]

\* shards.py:121, 146: what verifies is the whole corpus, in order, and unpacking restores it,
\* whatever has happened to the shards.
VerifiedIsWhole ==
  /\ reader.at # "none" => (reader.at = "refused" <=> At("harmed"))
  /\ reader.at = "unpacked" => PathsOf(reader.restored) = PathsOf(corpus)
=============================================================================
