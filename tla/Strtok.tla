------------------------------- MODULE Strtok -------------------------------
(***************************************************************************)
(* strtok of libs/klibc/string.c, and the loop of vfs_token_path that      *)
(* cuts a path into names with it.                                         *)
(*                                                                         *)
(* strtok overwrites the delimiter after each name in the caller's own     *)
(* buffer and keeps its place in a static pointer between calls.  A token  *)
(* is a pointer into the buffer: what it says is read when it is used,     *)
(* after the whole path has been cut.                                      *)
(***************************************************************************)
EXTENDS Integers, Sequences, SequencesExt, FiniteSetsExt

CONSTANTS
  Letter,      \* the characters names are made of
  SLASH, NUL,  \* the delimiter of paths and the end of a string
  MaxLength,   \* bound of the model: characters in a path
  MaxLookups   \* bound of the model: times a path is cut

Paths == BoundedSeq(Letter \cup {SLASH}, MaxLength)
NOWHERE == 0   \* the null pointer

VARIABLES
  path,          \* the path the caller wrote into its buffer
  buf,           \* the buffer, with the NUL that ends it
  backup_string, \* where strtok goes on, NOWHERE before the first call
  tokens,        \* the pointers pushed so far
  cutting,       \* vfs_token_path is in its loop
  lookups        \* how often it has been called on this buffer

vars == <<path, buf, backup_string, tokens, cutting, lookups>>

TypeOK ==
  /\ path \in Paths
  /\ buf \in Seq(Letter \cup {SLASH, NUL}) /\ Len(buf) = Len(path) + 1
  /\ backup_string \in {NOWHERE} \cup DOMAIN buf
  /\ tokens \in Seq(DOMAIN buf)
  /\ cutting \in BOOLEAN
  /\ lookups \in 0..MaxLookups

Init ==
  /\ path \in Paths
  /\ buf = Append(path, NUL)
  /\ backup_string = NOWHERE
  /\ tokens = <<>>
  /\ cutting = FALSE
  /\ lookups = 0

-----------------------------------------------------------------------------
\* The first position at or after p that holds none of, or one of, chars.
is_delim(ch, delim) == ch \in delim
Skip(p, chars) == Min({q \in DOMAIN buf : q >= p /\ ~is_delim(buf[q], chars)})
Find(p, chars) == Min({q \in DOMAIN buf : q >= p /\ is_delim(buf[q], chars)})

\* Fault: the delimiter is left in place.
CutNot(q) == buf

CutAt(q) == [buf EXCEPT ![q] = NUL]

\* Fault: strtok goes on at the delimiter it has overwritten.
GoOnAtCut(cut) == cut

\* Where the next call goes on: after the delimiter, or at the end.
GoOn(cut) == IF buf[cut] = NUL THEN cut ELSE cut + 1

\* strtok(p, "/"), and what vfs_token_path does with the answer: it goes on
\* calling, with NULL for p, until it is given NULL.
strtok(p, before) ==
  LET ret == Skip(p, {SLASH})
      cut == Find(ret, {SLASH, NUL})
  IN  IF buf[ret] = NUL
      THEN /\ cutting' = FALSE
           /\ tokens' = before
           /\ UNCHANGED <<buf, backup_string>>
      ELSE /\ cutting' = TRUE
           /\ tokens' = Append(before, ret)
           /\ buf' = CutAt(cut)
           /\ backup_string' = GoOn(cut)

FirstCall ==
  /\ ~cutting
  /\ lookups < MaxLookups
  /\ strtok(1, <<>>)
  /\ lookups' = lookups + 1
  /\ UNCHANGED path

NextCall ==
  /\ cutting
  /\ strtok(backup_string, tokens)
  /\ UNCHANGED <<path, lookups>>

Next == FirstCall \/ NextCall

Spec == Init /\ [][Next]_vars

-----------------------------------------------------------------------------
\* What the tokens say.
Names == [k \in DOMAIN tokens |->
            SubSeq(buf, tokens[k], Find(tokens[k], {NUL}) - 1)]

\* The names of a path: its longest runs without a slash, in order.
Starts == {p \in DOMAIN path : path[p] # SLASH /\ (p > 1 => path[p - 1] = SLASH)}
NameAt(p) ==
  LET ends == {q \in p..Len(path) : q = Len(path) \/ path[q + 1] = SLASH}
  IN  SubSeq(path, p, Min(ends))
Nth(k) == CHOOSE p \in Starts : Cardinality({q \in Starts : q <= p}) = k
NamesOf == [k \in 1..Cardinality(Starts) |-> NameAt(Nth(k))]

\* Cutting a path gives its names, however many slashes lie between, before
\* and behind them; the later cuts leave the earlier tokens as they were.
NamesRight == lookups = 1 /\ ~cutting => Names = NamesOf

\* A path can be cut once: whoever looks up the same buffer again finds its
\* first name only.
OnlyOnce ==
  lookups > 1 /\ ~cutting =>
    Names = IF NamesOf = <<>> THEN <<>> ELSE <<Head(NamesOf)>>
=============================================================================
