----------------------------- MODULE SearchText -----------------------------
(***************************************************************************)
(* What rl task search does with text: the chunker that cuts a task into   *)
(* pieces of bounded size, the case-folding matcher that maps a match back *)
(* to the raw text, and the excerpt around it. A text is a sequence of     *)
(* scalars; a scalar has a width in bytes and folds to one or more         *)
(* letters.                                                                *)
(***************************************************************************)
EXTENDS Integers, SequencesExt, FiniteSetsExt, Functions

CONSTANTS Widths,       \* bytes of each scalar
          Folds,        \* the full case fold of each scalar
          Terminators, Blanks,
          ChunkBudget,  \* CHUNK_BUDGET_BYTES
          HeaderBytes,  \* the labels of a header, without the title
          EllipsisBytes, BodyRoom

SearchTextConstants ==
  /\ DOMAIN Folds = DOMAIN Widths /\ \A c \in DOMAIN Widths : Widths[c] > 0 /\ Folds[c] # <<>>
  /\ Terminators \subseteq {c \in DOMAIN Widths : Widths[c] = 1}
  /\ HeaderBytes < ChunkBudget

Bytes(text) == FoldLeft(LAMBDA n, c : n + Widths[c], 0, text)

\* How many of the first scalars of text take at most n bytes.
Within(text, n) == Max({k \in 0..Len(text) : Bytes(SubSeq(text, 1, k)) <= n})

Saturated(n) == IF n < 0 THEN 0 ELSE n

-----------------------------------------------------------------------------
(* The chunker. A chunk is the title it is anchored with and its paragraphs. *)

LastSentenceBoundary(text, limit) == Max({0} \cup {i \in 1..limit : text[i] \in Terminators})

\* Scalars of the head: at least one, up to the last sentence end that fits.
SplitParagraphFragment(header, text) ==
  LET cut(fits, stop) == IF fits = 0 THEN 1 ELSE IF stop > 0 THEN stop ELSE fits
      fits == Within(text, Saturated(ChunkBudget - header))
  IN cut(fits, LastSentenceBoundary(text, fits))

\* Each piece is the body of a chunk.
RECURSIVE Fragments(_, _)
Fragments(header, text) ==
  IF text = <<>> THEN <<>>
  ELSE LET n == SplitParagraphFragment(header, text)
       IN <<<<SubSeq(text, 1, n)>>>> \o Fragments(header, SubSeq(text, n + 1, Len(text)))

BodyBytes(paragraphs) ==
  FoldLeft(LAMBDA n, p : n + Bytes(p), 2 * Saturated(Len(paragraphs) - 1), paragraphs)

\* What is packed so far, the chunk that is open included.
Flushed(st) == IF st.cur = <<>> THEN st.chunks ELSE Append(st.chunks, st.cur)

\* Packs whole paragraphs; one that does not fit beside the others is split. A
\* piece of it may be all that its chunk has.
PackBody(header, paragraphs) ==
  LET pack(st, p) ==
        IF header + BodyBytes(Append(st.cur, p)) <= ChunkBudget
        THEN [st EXCEPT !.cur = Append(@, p)]
        ELSE [cur |-> <<>>, chunks |-> Flushed(st) \o Fragments(header, p)]
  IN Flushed(FoldLeft(pack, [cur |-> <<>>, chunks |-> <<>>], SelectSeq(paragraphs, LAMBDA p : p # <<>>)))

BoundedAnchor(title) ==
  LET room == Saturated(ChunkBudget - (HeaderBytes + EllipsisBytes + BodyRoom))
  IN IF Bytes(title) <= room THEN [title |-> title, marked |-> FALSE]
     ELSE [title |-> SubSeq(title, 1, Within(title, room)), marked |-> TRUE]

AnchorBytes(anchor) ==
  HeaderBytes + Bytes(anchor.title) + (IF anchor.marked THEN EllipsisBytes ELSE 0)

IsBlank(paragraphs) == \A i \in DOMAIN paragraphs : Range(paragraphs[i]) \subseteq Blanks

Under(anchor, bodies) == [i \in DOMAIN bodies |-> [anchor |-> anchor, body |-> bodies[i]]]

ChunkFormatted(title, paragraphs, allowTitleOnly) ==
  LET whole == [title |-> title, marked |-> FALSE]
      long == AnchorBytes(whole) > ChunkBudget
      titleOnly == Under(whole, <<<<>>>>)
      chunks(anchor) == Under(anchor, PackBody(AnchorBytes(anchor), paragraphs))
  IN IF IsBlank(paragraphs) THEN (IF allowTitleOnly THEN titleOnly ELSE <<>>)
     ELSE (IF long THEN titleOnly ELSE <<>>) \o chunks(IF long THEN BoundedAnchor(title) ELSE whole)

\* The body and every comment, each by itself.
ChunkTask(title, body, comments) ==
  ChunkFormatted(title, body, TRUE)
    \o FlattenSeq([i \in DOMAIN comments |-> ChunkFormatted(title, comments[i], FALSE)])

-----------------------------------------------------------------------------
(* The literal lane: folded letters, each with the scalar it came from.     *)

FoldSource(text) ==
  FlattenSeq([i \in DOMAIN text |-> [j \in DOMAIN Folds[text[i]] |-> [letter |-> Folds[text[i]][j], at |-> i]]])

FoldPlain(text) == FlattenSeq([i \in DOMAIN text |-> Folds[text[i]]])

\* The search goes on behind the match.
BehindMatch(pos, n) == pos + n

\* The search goes on one letter further, so that overlapping matches count.
AfterMatch(pos, n) == pos + 1

MapToRaw(folded, first, last) == <<folded[first].at, folded[last].at>>

\* Spans of scalars, in the order in which they are found.
FindLiteralSpans(text, needle) ==
  LET folded == FoldSource(text)
      word == FoldPlain(needle)
      n == Len(word)
      at(i) == n > 0 /\ \A k \in 1..n : folded[i + k - 1].letter = word[k]
      found[from \in 1..Len(folded) + n + 1] ==
        LET hits == {i \in from..Len(folded) - n + 1 : at(i)}
        IN IF hits = {} THEN <<>>
           ELSE <<MapToRaw(folded, Min(hits), Min(hits) + n - 1)>> \o found[AfterMatch(Min(hits), n)]
  IN found[1]

\* The scalars of the excerpt: half the limit on each side, in bytes, widened to
\* whole scalars.
Excerpt(text, span, limit) ==
  LET before(i) == Bytes(SubSeq(text, 1, i - 1))
      start == Saturated(before(span[1]) - limit \div 2)
      end == Min({before(span[2] + 1) + limit \div 2, Bytes(text)})
  IN <<Max({i \in 1..Len(text) : before(i) <= start}), Min({i \in 1..Len(text) : before(i + 1) >= end})>>

-----------------------------------------------------------------------------
(***************************************************************************)
(* How its results are put in order: the kind of query, the literal lane   *)
(* over the raw texts, reciprocal-rank fusion of the lanes, and the tasks  *)
(* that go ahead of the others. The order within the lexical and the       *)
(* semantic lane comes from outside. A text here is a sequence of words.   *)
(***************************************************************************)
CONSTANTS Shapes,  \* the characters of a word: upper, lower, digit, mark, colon
          RrfK     \* RRF_K

\* camelCase, two capitals, a capital beside a digit, or a mark.
IsIdentifierToken(word) ==
  LET s == Shapes[word]
      beside(x, y) == \E i \in 1..Len(s) - 1 : s[i] = x /\ s[i + 1] = y
  IN \/ "mark" \in Range(s) \/ beside("colon", "colon")
     \/ beside("lower", "upper") \/ beside("upper", "digit") \/ beside("digit", "upper")
     \/ Cardinality({i \in DOMAIN s : s[i] = "upper"}) >= 2

IdentifierTokens(query) == {w \in Range(query) : IsIdentifierToken(w)}

Classify(query, exact) ==
  IF exact THEN "Exact" ELSE IF IdentifierTokens(query) # {} THEN "Identifier" ELSE "Natural"

\* What the lane knows of a task: columns are its title, body and comments.
LiteralLane(columns, query, mode) ==
  LET spans(i, q) == FindLiteralSpans(columns[i], q)
      occurrence == FoldLeft(LAMBDA n, c : n + Len(FindLiteralSpans(c, query)), 0, columns)
      allTokens == /\ mode = "Identifier" /\ IdentifierTokens(query) # {}
                   /\ \A w \in IdentifierTokens(query) : \E i \in DOMAIN columns : spans(i, <<w>>) # <<>>
  IN [occurrence |-> occurrence, full |-> occurrence > 0, allTokens |-> allTokens,
      contributed |-> IF mode = "Identifier" THEN occurrence > 0 \/ allTokens ELSE occurrence > 0,
      best |-> IF occurrence = 0 THEN 0 ELSE Min({i \in DOMAIN columns : spans(i, query) # <<>>})]

\* Ranks by occurrences, ties by id.
LiteralOccurrenceRanking(literal) ==
  SetToSortSeq({t \in DOMAIN literal : literal[t].occurrence > 0},
               LAMBDA t, u : \/ literal[t].occurrence > literal[u].occurrence
                             \/ literal[t].occurrence = literal[u].occurrence /\ t < u)

\* 1 / (K + rank), times a number that K + rank divides for every rank in use.
RrfTerm(lane, t) ==
  LET all == (RrfK + 1) * (RrfK + 2) * (RrfK + 3)
  IN IF t \in Range(lane) THEN all \div (RrfK + CHOOSE r \in DOMAIN lane : lane[r] = t) ELSE 0

RrfFuse(lanes, t) == FoldLeft(LAMBDA n, lane : n + RrfTerm(lane, t), 0, lanes)

OrderFused(lanes) ==
  SetToSortSeq(UNION {Range(lanes[i]) : i \in DOMAIN lanes},
               LAMBDA t, u : \/ RrfFuse(lanes, t) > RrfFuse(lanes, u)
                             \/ RrfFuse(lanes, t) = RrfFuse(lanes, u) /\ t < u)

Ahead(mode, lit) == CASE mode = "Exact" -> lit.full
                      [] mode = "Identifier" -> lit.full \/ lit.allTokens
                      [] OTHER -> FALSE

Assemble(mode, literal, lexical, semantic, limit) ==
  LET ordered == OrderFused(<<lexical, LiteralOccurrenceRanking(literal), semantic>>)
      ahead(t) == Ahead(mode, literal[t])
      sorted == SelectSeq(ordered, ahead) \o SelectSeq(ordered, LAMBDA t : ~ahead(t))
  IN SubSeq(sorted, 1, IF limit < Len(sorted) THEN limit ELSE Len(sorted))

\* Where the excerpt of a result comes from.
Evidence(lit, lexical, t) ==
  IF lit.contributed THEN (IF lit.best = 0 THEN "title" ELSE "literal")
  ELSE IF t \in Range(lexical) THEN "lexical" ELSE "title"

-----------------------------------------------------------------------------
(***************************************************************************)
(* How a chunk becomes the inputs of the embedding model: it is cut where  *)
(* a sentence ends, else at a blank, else anywhere, such that each piece   *)
(* with the corpus prefix fits the model; and how a batch of inputs        *)
(* becomes rows of token ids of one length. What a tokenizer makes of a    *)
(* text is left open: it only counts, and a longer text may have fewer     *)
(* tokens, since it may end in a word of the vocabulary.                   *)
(***************************************************************************)
CONSTANTS TokenCount(_),  \* tokens of a text, the special ones included
          CorpusPrefix, QueryPrefix,
          MaxInputTokens  \* max_input_tokens

EmbeddingConstants ==
  \A c \in DOMAIN Widths : TokenCount(CorpusPrefix \o <<c>>) < MaxInputTokens

-----------------------------------------------------------------------------
\* Cuts, as scalars in front of them, in ascending order; the end is one of them.
Cuts(text, at) == SetToSortSeq(at \cup {Len(text)}, <)
SentenceBoundaries(text) == Cuts(text, {i \in DOMAIN text : text[i] \in Terminators})
WordBoundaries(text) == Cuts(text, {i - 1 : i \in {j \in DOMAIN text : text[j] \in Blanks}})

\* At least one scalar.
ByteBoundary(text, bytes) == Max({Within(text, bytes), Min({1, Len(text)})})

Fits(text, cut) == TokenCount(CorpusPrefix \o SubSeq(text, 1, cut)) <= MaxInputTokens - 1

\* A binary search: cuts below lo were taken to fit, cuts from hi on not to.
LargestFit(text, cuts) ==
  LET RECURSIVE search(_, _)
      search(lo, hi) == LET mid == (lo + hi) \div 2
                        IN IF lo >= hi THEN lo
                           ELSE IF Fits(text, cuts[mid + 1]) THEN search(mid + 1, hi) ELSE search(lo, mid)
      n == search(0, Len(cuts))
  IN IF n = 0 THEN 0 ELSE cuts[n]

\* From as many bytes as there are tokens down to the first that fits; a first
\* scalar that does not fit would keep the loop going.
ShrunkToFit(text) ==
  Max({k \in 1..ByteBoundary(text, MaxInputTokens - 1) : Fits(text, k)})

NextCut(text) ==
  LET sentence == LargestFit(text, SentenceBoundaries(text))
      word == LargestFit(text, WordBoundaries(text))
  IN IF sentence > 0 THEN sentence ELSE IF word > 0 THEN word ELSE ShrunkToFit(text)

RECURSIVE Pieces(_)
Pieces(text) ==
  IF text = <<>> THEN <<>>
  ELSE LET n == NextCut(text) IN <<SubSeq(text, 1, n)>> \o Pieces(SubSeq(text, n + 1, Len(text)))

PlanSemanticInputs(text) == IF text # <<>> /\ Fits(text, Len(text)) THEN <<text>> ELSE Pieces(text)

-----------------------------------------------------------------------------
Encode(text, query) == TokenCount((IF query THEN QueryPrefix ELSE CorpusPrefix) \o text)

\* Of each input, the tokens that are kept and how far the row is filled up.
EmbedBatch(texts, query) ==
  LET longest == Max({Encode(t, query) : t \in Range(texts)})
      width == Min({longest, MaxInputTokens})
  IN [i \in DOMAIN texts |-> LET kept == Min({Encode(texts[i], query), width})
                            IN [kept |-> kept, filled |-> width - kept]]

\* A blank query is refused.
EmbedQuery(text) == IF Range(text) \subseteq Blanks THEN {} ELSE {EmbedBatch(<<text>>, TRUE)[1]}

-----------------------------------------------------------------------------
(***************************************************************************)
(* How the sidecar of the search index is opened, and what rl task search  *)
(* and rl task search-index status conclude from it. What the file system  *)
(* and SQLite answer at each step is the environment, a record:            *)
(*   policy    no symlink, nothing that others may write                   *)
(*   fix, connect, write   "ok", "denied", "cantopen" or "other": the      *)
(*             owner-only check, the open, the PRAGMAs and the schema      *)
(*   rungs     the kinds of read-only open that would work                 *)
(*   wal       the -wal file is not empty                                  *)
(*   tables    what the read of the metadata row finds: "current", "old",  *)
(*             "empty" (no row yet) or "fails"                             *)
(*   owner     the embedding profile that claimed the sidecar              *)
(*   model     "none", "broken" (verified, but does not load) or "loads"   *)
(***************************************************************************)

CONSTANTS Profile, NoOwner

\* Whether a failure means that writing is not allowed. An unopenable file does
\* so only once the sidecar is open.
FailureReason(outcome, pastOpen) ==
  IF outcome = "denied" \/ (pastOpen /\ outcome = "cantopen") THEN "PermissionDenied" ELSE "SidecarUnavailable"

\* A policy that is broken shows as an error of its own kind.
FixOwnerOnly(env) == IF env.policy THEN env.fix ELSE "other"

\* "ok" or the reason.
InitWritable(env) ==
  IF FixOwnerOnly(env) # "ok" THEN FailureReason(FixOwnerOnly(env), FALSE)
  ELSE IF env.connect # "ok" THEN FailureReason(env.connect, FALSE)
  ELSE IF env.write # "ok" THEN FailureReason(env.write, TRUE)
  ELSE "ok"

\* Which rung opens it.
ConnectReadOnly(env) ==
  IF ~env.policy THEN "none"
  ELSE IF "readonly" \in env.rungs THEN "readonly"
  ELSE IF ~env.wal /\ "immutable" \in env.rungs THEN "immutable"
  ELSE "none"

\* The pool that the process keeps from here on.
OpenReadable(env) ==
  CASE InitWritable(env) = "ok" -> "writable"
    [] InitWritable(env) = "PermissionDenied" -> ConnectReadOnly(env)
    [] OTHER -> "none"

\* A pool that was opened for reading only refuses, without another attempt.
OpenWritable(env, cached) ==
  IF cached = "none" THEN InitWritable(env) = "ok" ELSE cached = "writable"

\* An open for writing seeds the row.
Metadata(env) ==
  LET pool == OpenReadable(env)
      row == IF pool = "writable" /\ env.tables = "empty" THEN "current" ELSE env.tables
  IN IF pool = "none" \/ row = "fails" THEN [available |-> FALSE, mismatch |-> FALSE, readOnly |-> FALSE]
     ELSE [available |-> row # "empty", mismatch |-> row # "current", readOnly |-> pool # "writable"]

Stats(env) == OpenReadable(env) # "none" /\ env.tables # "fails"

MaybeBuildEmbedder(env) == env.model = "loads"
ModelPrepared(env) == env.model # "none"

-----------------------------------------------------------------------------
\* rl task search up to its lanes; reconciles says whether the reconcile works.
SearchLexicalLane(env, reconciles) ==
  LET meta == Metadata(env) IN
  IF meta.mismatch THEN "SchemaMismatch"
  ELSE IF meta.readOnly THEN "ok"
  ELSE IF ~OpenWritable(env, OpenReadable(env)) THEN "SidecarUnavailable"
  ELSE IF reconciles THEN "ok" ELSE "ReconciliationFailed"

\* The claim of an unclaimed sidecar is taken to succeed: no other process runs.
\* covered: every chunk has its vectors, after a batch of embedding if it may write.
SearchSemanticLane(env, exact, reconciles, covered) ==
  LET meta == Metadata(env)
      owner == IF meta.available THEN env.owner ELSE NoOwner
  IN IF SearchLexicalLane(env, reconciles) # "ok" THEN "LexicalIndexUnavailable"
     ELSE IF exact THEN "ExactMode"
     ELSE IF ~MaybeBuildEmbedder(env) THEN "ModelNotPrepared"
     ELSE IF owner \notin {Profile, NoOwner} \/ (owner = NoOwner /\ meta.readOnly) THEN "ProfileMismatch"
     ELSE IF covered THEN "ok" ELSE "EmbeddingFailed"

\* rl task search-index status.
StatusLexicalLane(env) ==
  IF ~Stats(env) \/ ~Metadata(env).available THEN "SidecarUnavailable"
  ELSE IF Metadata(env).mismatch THEN "SchemaMismatch" ELSE "ok"

StatusSemanticLane(env) ==
  LET meta == Metadata(env)
      owner == IF meta.available THEN env.owner ELSE NoOwner
  IN IF StatusLexicalLane(env) # "ok" THEN "LexicalIndexUnavailable"
     ELSE IF ~ModelPrepared(env) THEN "ModelNotPrepared"
     ELSE IF owner \notin {Profile, NoOwner} \/ (owner = NoOwner /\ meta.readOnly) THEN "ProfileMismatch"
     ELSE "ok"
=============================================================================
