----------------------------- MODULE Algorithms -----------------------------
(***************************************************************************)
(* Algorithms of the libraries, each applied to every input of a bounded   *)
(* set: 64-bit division (lib/arithmetic.c), heap sort and binary search    *)
(* (lib/stdlib.c), strings and blocks of bytes (lib/string.c), the stack   *)
(* of a new process (userprog/process.c) and the calibration of the timer  *)
(* (devices/timer.c).  Words are scaled down: a half word has 4 bits.      *)
(***************************************************************************)
EXTENDS Integers, Sequences, FiniteSets, SequencesExt, FiniteSetsExt

CONSTANT Inputs   \* records [op, ...] of an operation and its arguments

VARIABLES input, result, done

algo_vars == <<input, result, done>>

AlgorithmsInit == input \in Inputs /\ result = <<>> /\ done = FALSE

-----------------------------------------------------------------------------
(* arithmetic.c *)

b == 16                       \* 1ULL << 32
Wrap(x) == x % (b * b)        \* uint64_t
Signed(x) == IF x >= (b * b) \div 2 THEN x - b * b ELSE x
Trap == -1

\* The divl instruction: the quotient, or a divide error if it does not fit.
divl(n, d) == IF d = 0 THEN Trap ELSE IF n \div d >= b THEN Trap ELSE n \div d

\* Leading zeros, by halves.
nlz(x) ==
  LET n2 == IF x <= 3 THEN 2 ELSE 0
      y == (x * 2 ^ n2) % b
  IN  n2 + (IF y <= 7 THEN 1 ELSE 0)

\* Mutant: the estimate of the quotient is not corrected.
udiv64_estimate(n, d) ==
  LET n1 == n \div b
      n0 == n % b
      s == nlz(d \div b)
      q == divl(n \div 2, Wrap(d * 2 ^ s) \div b) \div 2 ^ (3 - s)
  IN  IF d \div b = 0 THEN divl(b * (n1 % d) + n0, d) + b * (n1 \div d)
      ELSE IF n < d THEN 0 ELSE q

udiv64(n, d) ==
  LET n1 == n \div b
      n0 == n % b
      s == nlz(d \div b)
      q == divl(n \div 2, Wrap(d * 2 ^ s) \div b) \div 2 ^ (3 - s)
  IN  IF d \div b = 0 THEN divl(b * (n1 % d) + n0, d) + b * (n1 \div d)
      ELSE IF n < d THEN 0
      ELSE IF Wrap(n - (q - 1) * d) < d THEN q - 1 ELSE q

\* The remainder is returned in a uint32_t.
umod64(n, d) == Wrap(n - d * udiv64(n, d)) % b

Abs(x) == Wrap(IF x >= 0 THEN x ELSE -x)

sdiv64(n, d) ==
  LET q == udiv64(Abs(n), Abs(d)) IN
  Signed(IF (n < 0) = (d < 0) THEN q ELSE Wrap(-q))

\* The remainder is returned in an int32_t.
smod64(n, d) ==
  LET r == Wrap(n - d * sdiv64(n, d)) % b IN
  IF r >= b \div 2 THEN r - b ELSE r

-----------------------------------------------------------------------------
(* stdlib.c: arrays are sequences of numbers *)

Swapped(a, i, j) == [a EXCEPT ![i] = a[j], ![j] = a[i]]

RECURSIVE heapify(_, _, _)
heapify(a, i, cnt) ==
  LET left == 2 * i
      right == 2 * i + 1
      m == IF left <= cnt /\ a[left] > a[i] THEN left ELSE i
      max == IF right <= cnt /\ a[right] > a[m] THEN right ELSE m
  IN  IF max = i THEN a ELSE heapify(Swapped(a, i, max), max, cnt)

RECURSIVE BuildHeap(_, _)
BuildHeap(a, i) == IF i = 0 THEN a ELSE BuildHeap(heapify(a, i, Len(a)), i - 1)

RECURSIVE SortHeap(_, _)
SortHeap(a, i) == IF i <= 1 THEN a ELSE SortHeap(heapify(Swapped(a, 1, i), 1, i - 1), i - 1)

heap_sort(a) == SortHeap(BuildHeap(a, Len(a) \div 2), Len(a))

\* The place found, from 1, or 0.
RECURSIVE binary_search(_, _, _, _)
binary_search(key, a, first, last) ==
  LET middle == first + (last - first) \div 2 IN
  IF first >= last THEN 0
  ELSE IF key < a[middle + 1] THEN binary_search(key, a, first, middle)
  ELSE IF key > a[middle + 1] THEN binary_search(key, a, middle + 1, last)
  ELSE middle + 1

-----------------------------------------------------------------------------
(* string.c: a string is its characters, ended by NUL; memory is a sequence  *)

NUL == 0
Space == 1

\* strtok_r (s, " ") from position i: where the token starts, 0 for none, the memory
\* and the saved position.
Skipped(m, i) == CHOOSE j \in i .. Len(m) : m[j] # Space /\ \A k \in i .. j - 1 : m[k] = Space
EndOf(m, i) == CHOOSE j \in i .. Len(m) :
                 m[j] \in {NUL, Space} /\ \A k \in i .. j - 1 : m[k] \notin {NUL, Space}

strtok_r(m, i) ==
  LET token == Skipped(m, i)
      end == EndOf(m, token)
  IN  IF m[token] = NUL THEN [token |-> 0, m |-> m, save |-> token]
      ELSE IF m[end] = NUL THEN [token |-> token, m |-> m, save |-> end]
      ELSE [token |-> token, m |-> [m EXCEPT ![end] = NUL], save |-> end + 1]

\* The loop of load(): the tokens and what is left of the command line.
RECURSIVE Tokens(_, _, _)
Tokens(m, i, got) ==
  LET t == strtok_r(m, i) IN
  IF t.token = 0 THEN [tokens |-> got, m |-> t.m] ELSE Tokens(t.m, t.save, Append(got, t.token))

strlen(m) == (CHOOSE i \in DOMAIN m : m[i] = NUL /\ \A j \in 1 .. i - 1 : m[j] # NUL) - 1

\* size bytes of src, from its byte from on, over dst, from its byte at on.
Copied(dst, at, src, from, size) ==
  [i \in DOMAIN dst |-> IF i \in at .. at + size - 1 THEN src[from + i - at] ELSE dst[i]]

Lesser(x, y) == IF x < y THEN x ELSE y

strlcpy(dst, src, size) ==
  LET dst_len == Lesser(size - 1, strlen(src)) IN
  [m |-> IF size = 0 THEN dst
         ELSE [Copied(dst, 1, src, 1, dst_len) EXCEPT ![dst_len + 1] = NUL],
   len |-> strlen(src)]

strlcat(dst, src, size) ==
  LET dst_len == strlen(dst)
      copy_cnt == Lesser(size - dst_len - 1, strlen(src))
  IN  [m |-> IF size = 0 \/ dst_len >= size THEN dst
             ELSE [Copied(dst, dst_len + 1, src, 1, copy_cnt) EXCEPT ![dst_len + copy_cnt + 1] = NUL],
       len |-> strlen(src) + dst_len]

\* memmove() within m: byte by byte, upwards or downwards.  The pointer it returns is
\* the one it has moved along the destination.
RECURSIVE MoveUp(_, _, _, _)
MoveUp(m, dst, src, size) ==
  IF size = 0 THEN m ELSE MoveUp([m EXCEPT ![dst] = m[src]], dst + 1, src + 1, size - 1)
RECURSIVE MoveDown(_, _, _, _)
MoveDown(m, dst, src, size) ==
  IF size = 0 THEN m
  ELSE MoveDown([m EXCEPT ![dst + size - 1] = m[src + size - 1]], dst, src, size - 1)
memmove(m, dst, src, size) ==
  IF dst < src THEN [m |-> MoveUp(m, dst, src, size), ret |-> dst + size]
  ELSE [m |-> MoveDown(m, dst, src, size), ret |-> dst]

\* strcmp() from position i.
RECURSIVE strcmp(_, _, _)
strcmp(x, y, i) ==
  IF x[i] # NUL /\ x[i] = y[i] THEN strcmp(x, y, i + 1)
  ELSE IF x[i] < y[i] THEN -1 ELSE IF x[i] > y[i] THEN 1 ELSE 0

-----------------------------------------------------------------------------
(* push_stack() of process.c, for arguments of the given lengths; offsets    *)
(* are from PHYS_BASE, a multiple of 4.                                      *)

RECURSIVE Pushed(_, _, _)
Pushed(lens, i, esp) ==
  IF i = 0 THEN <<>> ELSE Append(Pushed(lens, i - 1, esp - lens[i] - 1), esp - lens[i] - 1)

push_stack(lens) ==
  LET argc == Len(lens)
      adds_array == Pushed(lens, argc, 0)
      total_size == -(IF argc = 0 THEN 0 ELSE adds_array[1])
      null_ptr == -total_size - (4 - (total_size % 4)) - 4
      argv == null_ptr - 4 * argc
  IN  [adds |-> adds_array, null |-> null_ptr,
       args |-> [i \in 1 .. argc |-> null_ptr - 4 * (argc - i + 1)],
       argv |-> argv, esp |-> argv - 12]

-----------------------------------------------------------------------------
(* timer_calibrate(), where loops loops take one tick; 2^2 is the first and  *)
(* 2 the number of bits tried (2^10 and 9).                                  *)

too_many_loops(n, loops) == n >= loops

RECURSIVE HighBit(_, _)
HighBit(n, loops) == IF too_many_loops(2 * n, loops) THEN n ELSE HighBit(2 * n, loops)

timer_calibrate(loops) ==
  LET high_bit == HighBit(4, loops)
      tried == {high_bit \div 2, high_bit \div 4}
  IN  high_bit + FoldSet(LAMBDA t, n : t + n, 0, {t \in tried : ~too_many_loops(high_bit + t, loops)})

-----------------------------------------------------------------------------

Computed(x) ==
  CASE x.op = "div" -> <<udiv64(x.n, x.d), umod64(x.n, x.d), sdiv64(Signed(x.n), Signed(x.d)),
                         smod64(Signed(x.n), Signed(x.d))>>
    [] x.op = "sort" -> heap_sort(x.a)
    [] x.op = "search" -> <<binary_search(x.key, x.a, 0, Len(x.a))>>
    [] x.op = "tokens" -> Tokens(x.s, 1, <<>>)
    [] x.op = "copy" -> <<strlcpy(x.dst, x.src, x.size), strlcat(x.dst, x.src, x.size)>>
    [] x.op = "move" -> memmove(x.m, x.dst, x.src, x.size)
    [] x.op = "compare" -> <<strcmp(x.s, x.t, 1)>>
    [] x.op = "stack" -> push_stack(x.lens)
    [] x.op = "calibrate" -> <<timer_calibrate(x.loops)>>

compute ==
  /\ ~done /\ done' = TRUE
  /\ result' = Computed(input)
  /\ UNCHANGED input

-----------------------------------------------------------------------------
(* Properties *)

Quotient(n, d) ==     \* truncated towards 0
  LET q == (IF n < 0 THEN -n ELSE n) \div (IF d < 0 THEN -d ELSE d) IN
  IF (n < 0) = (d < 0) THEN q ELSE -q
Text(m) == SubSeq(m, 1, strlen(m))

Remainder(n, d) == n - d * Quotient(n, d)

\* The quotients are exact, except that the one that does not fit wraps around, and so
\* are the remainders that fit in half of the word.
DivisionExact ==
  LET n == Signed(input.n)
      d == Signed(input.d)
  IN  /\ result[1] = input.n \div input.d
      /\ input.n % input.d < b => result[2] = input.n % input.d
      /\ result[3] = Signed(Wrap(Quotient(n, d)))
      /\ Remainder(n, d) \in -(b \div 2) .. b \div 2 - 1 => result[4] = Remainder(n, d)

(***************************************************************************)
(* On every input tried 64-bit division is exact and never traps, and its  *)
(* remainders are as far as they fit in 32 bits (udiv64(), sdiv64(),       *)
(* umod64(), smod64()), sort() sorts, binary_search() finds a match if     *)
(* there is one, strtok_r() splits at runs of delimiters, strlcpy() and,   *)
(* where the destination is shorter than the size, strlcat() end the       *)
(* string within the size and write nothing past it, memmove() copies      *)
(* blocks that overlap, strcmp() orders strings; push_stack() lays out the *)
(* arguments without overlap and with all pointers aligned, and            *)
(* timer_calibrate() is off by less than a factor of 2.                    *)
(***************************************************************************)
LibraryAgrees ==
  done =>
  CASE input.op = "div" -> DivisionExact
    [] input.op = "sort" ->
         /\ \A i, j \in DOMAIN result : i < j => result[i] <= result[j]
         /\ \A v \in ToSet(input.a) \union ToSet(result) :
              Cardinality({i \in DOMAIN result : result[i] = v})
                = Cardinality({i \in DOMAIN input.a : input.a[i] = v})
    [] input.op = "search" ->
         IF input.key \in ToSet(input.a) THEN result[1] # 0 /\ input.a[result[1]] = input.key
         ELSE result[1] = 0
    [] input.op = "tokens" ->
         LET s == input.s
             starts == {i \in DOMAIN s : s[i] \notin {NUL, Space}
                                           /\ (i = 1 \/ s[i - 1] = Space)}
         IN  /\ result.tokens = SetToSortSeq(starts, <)
             /\ \A i \in starts : Text(SubSeq(result.m, i, Len(s))) = SubSeq(s, i, EndOf(s, i) - 1)
    [] input.op = "copy" ->
         LET size == input.size
             both == Text(input.dst) \o Text(input.src)
         IN  /\ result[1].len = strlen(input.src) /\ result[2].len = Len(both)
             /\ size > 0 => Text(result[1].m) = SubSeq(Text(input.src), 1, Lesser(strlen(input.src), size - 1))
             /\ strlen(input.dst) < size =>
                  Text(result[2].m) = SubSeq(both, 1, Lesser(Len(both), size - 1))
             /\ \A i \in size + 1 .. Len(input.dst) :
                  result[1].m[i] = input.dst[i] /\ result[2].m[i] = input.dst[i]
    [] input.op = "move" -> result.m = Copied(input.m, input.dst, input.m, input.src, input.size)
    [] input.op = "compare" ->
         LET x == input.s
             y == input.t
             differ == {i \in DOMAIN x \intersect DOMAIN y : x[i] # y[i]}
         IN  IF Text(x) = Text(y) THEN result[1] = 0
             ELSE result[1] = IF x[Min(differ)] < y[Min(differ)] THEN -1 ELSE 1
    [] input.op = "stack" ->
         LET lens == input.lens
             bytes(i) == result.adds[i] .. result.adds[i] + lens[i]
             words == ToSet(result.args) \union {result.null, result.esp, result.esp + 4, result.esp + 8}
         IN  /\ \A w \in words : w % 4 = 0
             /\ Cardinality(words) = Len(lens) + 4
             /\ result.argv = result.esp + 12
             /\ \A i \in DOMAIN lens : result.args[i] = result.argv + 4 * (i - 1)
             /\ result.null = result.argv + 4 * Len(lens)
             /\ \A i, j \in DOMAIN lens : i # j => bytes(i) \intersect bytes(j) = {}
             /\ \A i \in DOMAIN lens : bytes(i) \subseteq result.null + 4 .. -1
    [] input.op = "calibrate" -> result[1] < 2 * input.loops /\ 2 * result[1] >= input.loops

\* "Divides unsigned 64-bit N by unsigned 64-bit D and returns the remainder"
\* (lib/arithmetic.c:129).
RemainderReturned == done /\ input.op = "div" => result[2] = input.n % input.d

\* "Returns DST" (lib/string.c:22).
MoveReturnsDst == done /\ input.op = "move" => result.ret = input.dst

\* strlcat(): "A null terminator is always written to DST, unless SIZE is 0"
\* (lib/string.c:346).
CatTerminates ==
  done /\ input.op = "copy" /\ input.size > 0 =>
    \E i \in 1 .. input.size : result[2].m[i] = NUL

=============================================================================
