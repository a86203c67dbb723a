--------------------------------- MODULE Paging ---------------------------------
(***************************************************************************)
(* Long texts are read in pages: read_context by characters, chunk_context *)
(* and chunk_fact by numbered chunks, the latter with an overlap, and the  *)
(* whole-text split by bytes, in which a character is 1 to 4 bytes wide.   *)
(* A client follows next_start or next_chunk until there is none.  A text  *)
(* never changes; a context that expires or is reset ends the reading.     *)
(***************************************************************************)
EXTENDS Naturals, Sequences

CONSTANTS MaxLength,    \* bound: characters of a text
          MaxSize,      \* bound: page and chunk sizes
          Widths        \* bytes of a character

ASSUME PagingAssumption == {MaxLength, MaxSize} \subseteq Nat /\ Widths \subseteq 1..4

VARIABLE page   \* the reading: its arguments, where it is, and what it got

Least(a, b) == IF a < b THEN a ELSE b
Span(from, to) == [i \in 1..(to - from) |-> from + i]

PagingInit ==
  \/ \E n \in 0..MaxLength, size \in 1..MaxSize :
       page = [tool |-> "read", length |-> n, size |-> size, overlap |-> 0, atOnce |-> 1,
               at |-> 0, got |-> <<>>, pages |-> 0, over |-> FALSE]
  \/ \E n \in 0..MaxLength, size, atOnce \in 1..MaxSize :
       page = [tool |-> "context", length |-> n, size |-> size, overlap |-> 0, atOnce |-> atOnce,
               at |-> 0, got |-> <<>>, pages |-> 0, over |-> FALSE]
  \/ \E n \in 0..MaxLength, size, atOnce \in 1..MaxSize : \E overlap \in 0..(size - 1) :
       page = [tool |-> "fact", length |-> n, size |-> size, overlap |-> overlap,
               atOnce |-> atOnce, at |-> 0, got |-> <<>>, pages |-> 0, over |-> FALSE]
  \/ \E n \in 0..MaxLength, size \in 1..(2 * MaxSize) : \E w \in [1..n -> Widths] :
       page = [tool |-> "bytes", length |-> n, size |-> size, widths |-> w,
               at |-> 0, chunk |-> <<>>, chunks |-> <<>>, over |-> FALSE]

NoPaging == page = [tool |-> "none", over |-> TRUE]

\* read_context from page.at on: what it returns and where the next page begins.
ReadContext ==
  /\ page.tool = "read" /\ ~page.over
  /\ LET end == Least(page.length, page.at + page.size)
     IN page' = [page EXCEPT !.got = @ \o Span(page.at, end), !.at = end,
                             !.pages = @ + 1, !.over = end = page.length]

\* The chunks of a context, numbered from 0: how many, and the ends of one.
TotalFloor(length, size) == length \div size
Total(length, size) == (length + size - 1) \div size
ContextChunk(i) == [start |-> i * page.size, end |-> Least(page.length, (i + 1) * page.size)]

(* The chunks of a fact step by the size less the overlap, and the one     *)
(* that reaches the end is the last.                                       *)
StepFact(length, size, overlap) ==
  LET step == size - overlap
  IN IF length = 0 THEN 0
     ELSE 1 + (CHOOSE k \in 0..length : /\ k * step + size >= length
                                        /\ \A j \in 0..(k - 1) : j * step + size < length)
FactChunk(i) ==
  LET start == i * (page.size - page.overlap)
  IN [start |-> start, end |-> Least(page.length, start + page.size)]

\* What the client has of a text when it appends a chunk that overlaps it.
Joined(got, c) == SubSeq(got, 1, Least(Len(got), c.start)) \o Span(c.start, c.end)

Pages(total, Chunk(_)) ==
  LET last == Least(total, page.at + page.atOnce)
      got[i \in page.at..last] ==
        IF i = page.at THEN page.got ELSE Joined(got[i - 1], Chunk(i - 1))
  IN page' = [page EXCEPT !.got = got[last], !.at = last, !.pages = @ + 1,
                          !.over = last = total]

ChunkContext ==
  /\ page.tool = "context" /\ ~page.over
  /\ Pages(Total(page.length, page.size), ContextChunk)

ChunkFact ==
  /\ page.tool = "fact" /\ ~page.over
  /\ Pages(StepFact(page.length, page.size, page.overlap), FactChunk)

Bytes(s) == LET sum[i \in 0..Len(s)] == IF i = 0 THEN 0 ELSE sum[i - 1] + page.widths[s[i]]
            IN sum[Len(s)]

\* No room for a character in the chunk under way, counted in characters and in bytes.
FullByCharacters(c) == page.chunk # <<>> /\ Len(page.chunk) + 1 > page.size
Full(c) == page.chunk # <<>> /\ Bytes(page.chunk) + page.widths[c] > page.size

(* split_utf8_chunks: the next character goes into the chunk under way or  *)
(* begins another; one wider than a chunk is an error.                     *)
SplitChunks ==
  /\ page.tool = "bytes" /\ ~page.over
  /\ LET c == page.at + 1
     IN page' = IF page.at = page.length
                THEN [page EXCEPT !.over = TRUE,
                        !.chunks = IF page.chunk # <<>> \/ @ = <<>> THEN Append(@, page.chunk) ELSE @]
                ELSE IF page.widths[c] > page.size
                THEN [page EXCEPT !.over = TRUE, !.chunks = <<>>, !.chunk = <<>>]
                ELSE [page EXCEPT !.at = c,
                        !.chunks = IF Full(c) THEN Append(@, page.chunk) ELSE @,
                        !.chunk = IF Full(c) THEN <<c>> ELSE Append(@, c)]

\* The text is gone before the reading ends.
TextGone ==
  /\ ~page.over /\ page.tool # "bytes"
  /\ page' = [page EXCEPT !.over = TRUE, !.tool = "gone"]

PagingNext == ReadContext \/ ChunkContext \/ ChunkFact \/ SplitChunks \/ TextGone

--------------------------------------------------------------------------------
(* Following next_start or next_chunk to its end gives the text, whole and *)
(* once, whatever the sizes, in at most one page per character and one.    *)
ReadingJoins ==
  page.tool \in {"read", "context", "fact"} =>
    /\ page.got = Span(0, Len(page.got))
    /\ page.over => Len(page.got) = page.length
    /\ page.pages <= page.length + 1

(* The pieces of a split that is not refused are the text, whole and once, *)
(* none of them empty unless the text is and none over the limit in bytes. *)
Concat(pieces) ==
  LET all[i \in 0..Len(pieces)] == IF i = 0 THEN <<>> ELSE all[i - 1] \o pieces[i]
  IN all[Len(pieces)]
SplitWhole ==
  page.tool = "bytes" /\ page.over /\ page.at = page.length =>
    /\ Concat(page.chunks) = Span(0, page.length)
    /\ \A i \in DOMAIN page.chunks :
         /\ page.chunks[i] = <<>> => page.length = 0
         /\ Bytes(page.chunks[i]) <= page.size

(* However a text is taken apart, it is whole when it is put together.     *)
PagesJoin == ReadingJoins /\ SplitWhole
================================================================================
