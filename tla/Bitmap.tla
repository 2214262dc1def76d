------------------------------- MODULE Bitmap -------------------------------
(***************************************************************************)
(* Bitmaps (lib/kernel/bitmap.c): bits packed in words, against the sets   *)
(* of numbers they stand for.  Words are scaled down to ELEM_BITS bits.    *)
(***************************************************************************)
EXTENDS Integers, Sequences, FiniteSets, FiniteSetsExt

CONSTANTS ELEM_BITS, bit_cnt

BITMAP_ERROR == -1
Bit == 0 .. bit_cnt - 1
DIV_ROUND_UP(x, step) == (x + step - 1) \div step
elem_cnt_of == DIV_ROUND_UP(bit_cnt, ELEM_BITS)
Word == 0 .. elem_cnt_of - 1

BitmapAssumption == ELEM_BITS \in Nat \ {0} /\ bit_cnt \in Nat \ {0}

VARIABLES
  bits,     \* the words, each as a number
  file,     \* the words last written to the bitmap's file
  marked,   \* history: the bits that should be true
  saved,    \* history: the bits that should be true in the file
  outcome,  \* what the last query answered and should answer, and whether it was for
            \* a group of no bits
  loaded    \* history: the words have been read from the file

bitmap_vars == <<bits, file, marked, saved, outcome, loaded>>

NoOutcome == [is |-> 0, should |-> 0, none |-> FALSE]

\* bitmap_create(): malloc() does not clear the words, and bitmap_set_all() clears
\* only bits that are used.
BitmapInit ==
  /\ \E junk \in 0 .. 2 ^ ELEM_BITS - 1 :
       /\ junk % 2 ^ (1 + ((bit_cnt - 1) % ELEM_BITS)) = 0
       /\ bits = [w \in Word |-> IF w = elem_cnt_of - 1 THEN junk ELSE 0]
  /\ file = bits
  /\ marked = {} /\ saved = {} /\ outcome = NoOutcome /\ loaded = FALSE

-----------------------------------------------------------------------------

elem_idx(i) == i \div ELEM_BITS
bit_mask(i) == 2 ^ (i % ELEM_BITS)

bitmap_test(b, i) == (b[elem_idx(i)] \div bit_mask(i)) % 2 = 1

\* bitmap_mark() and bitmap_reset(): | mask and & ~mask.
bitmap_set(b, i, value) ==
  IF bitmap_test(b, i) = value THEN b
  ELSE [b EXCEPT ![elem_idx(i)] = IF value THEN @ + bit_mask(i) ELSE @ - bit_mask(i)]

RECURSIVE bitmap_set_multiple(_, _, _, _)
bitmap_set_multiple(b, start, cnt, value) ==
  IF cnt = 0 THEN b
  ELSE bitmap_set_multiple(bitmap_set(b, start, value), start + 1, cnt - 1, value)

bitmap_count(b, start, cnt, value) ==
  Cardinality({i \in start .. start + cnt - 1 : bitmap_test(b, i) = value})

bitmap_contains(b, start, cnt, value) ==
  \E i \in start .. start + cnt - 1 : bitmap_test(b, i) = value

\* Mutant: the last group is not tried.
bitmap_scan_short(b, start, cnt, value) ==
  LET found == {i \in start .. bit_cnt - cnt - 1 : ~bitmap_contains(b, i, cnt, ~value)} IN
  IF found = {} THEN BITMAP_ERROR ELSE Min(found)

bitmap_scan(b, start, cnt, value) ==
  LET found == {i \in start .. bit_cnt - cnt : ~bitmap_contains(b, i, cnt, ~value)} IN
  IF found = {} THEN BITMAP_ERROR ELSE Min(found)

LastBits == IF bit_cnt % ELEM_BITS = 0 THEN ELEM_BITS ELSE bit_cnt % ELEM_BITS

\* last_mask(), which bitmap_read() applies to the last word.
LastMasked(w) ==
  w % 2 ^ LastBits

-----------------------------------------------------------------------------

Changed(s, is, value) == IF value THEN s \union is ELSE s \ is

\* bitmap_set_multiple(), with bitmap_set() and bitmap_set_all().
set_multiple(start, cnt, value) ==
  /\ start + cnt <= bit_cnt
  /\ bits' = bitmap_set_multiple(bits, start, cnt, value)
  /\ marked' = Changed(marked, start .. start + cnt - 1, value)
  /\ outcome' = NoOutcome
  /\ UNCHANGED <<file, saved, loaded>>

\* bitmap_flip(): ^ mask.
flip(i) ==
  /\ bits' = bitmap_set(bits, i, ~bitmap_test(bits, i))
  /\ marked' = Changed(marked, {i}, i \notin marked)
  /\ outcome' = NoOutcome
  /\ UNCHANGED <<file, saved, loaded>>

\* bitmap_scan_and_flip(): the first group, and the group it should find.  For no
\* bits its comment asks for 0, wherever the scan starts.
scan_and_flip(start, cnt, value) ==
  LET i == bitmap_scan(bits, start, cnt, value)
      free == {j \in start .. bit_cnt : j + cnt <= bit_cnt
                 /\ \A k \in j .. j + cnt - 1 : (k \in marked) = value}
      should == IF cnt = 0 THEN 0 ELSE IF free = {} THEN BITMAP_ERROR ELSE Min(free)
  IN
  /\ start <= bit_cnt
  /\ bits' = IF i = BITMAP_ERROR THEN bits ELSE bitmap_set_multiple(bits, i, cnt, ~value)
  /\ marked' = IF should = BITMAP_ERROR THEN marked
               ELSE Changed(marked, should .. should + cnt - 1, ~value)
  /\ outcome' = [is |-> i, should |-> should, none |-> cnt = 0]
  /\ UNCHANGED <<file, saved, loaded>>

count(start, cnt, value) ==
  /\ start + cnt <= bit_cnt
  /\ outcome' = [is |-> bitmap_count(bits, start, cnt, value),
                 should |-> Cardinality({i \in start .. start + cnt - 1 : (i \in marked) = value}),
                 none |-> FALSE]
  /\ UNCHANGED <<bits, file, marked, saved, loaded>>

bitmap_write ==
  /\ file' = bits /\ saved' = marked
  /\ outcome' = NoOutcome
  /\ UNCHANGED <<bits, marked, loaded>>

bitmap_read ==
  /\ bits' = [file EXCEPT ![elem_cnt_of - 1] = LastMasked(@)]
  /\ marked' = saved /\ loaded' = TRUE
  /\ outcome' = NoOutcome
  /\ UNCHANGED <<file, saved>>

-----------------------------------------------------------------------------

(***************************************************************************)
(* A bitmap is the set of its marked bits, after any sequence of           *)
(* operations, in memory and read back from its file, although the last    *)
(* word has bits that stand for nothing, start as malloc() left them and   *)
(* are stored with the others: once the words have been read back these    *)
(* are clear and stay so.  bitmap_scan_and_flip() of at least one bit      *)
(* takes the first group that there is, up to the last bits, and           *)
(* bitmap_count() counts.                                                  *)
(***************************************************************************)
BitmapAsSet ==
  /\ marked = {i \in Bit : bitmap_test(bits, i)}
  /\ saved = {i \in Bit : bitmap_test(file, i)}
  /\ loaded => bits[elem_cnt_of - 1] < 2 ^ LastBits
  /\ ~outcome.none => outcome.is = outcome.should

\* "If CNT is zero, returns 0" (lib/kernel/bitmap.c:316).
NoBitsAtZero == outcome.is = outcome.should
=============================================================================
