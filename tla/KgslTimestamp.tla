---------------------------- MODULE KgslTimestamp ----------------------------
(***************************************************************************)
(* The 32 bit GPU timestamps of KGSL, which roll over.  Two timestamps     *)
(* less than KGSL_TIMESTAMP_WINDOW (kgsl.h:121) apart are ordered by the   *)
(* shorter way around the circle of 2 * Window values.                     *)
(***************************************************************************)
EXTENDS Integers

CONSTANT Window        \* KGSL_TIMESTAMP_WINDOW: 2^31 for the u32 of the code

ASSUME WindowAssumption == Window \in Nat \ {0}

\* The values of an unsigned int: 0 .. UINT_MAX.
Timestamp == 0 .. 2 * Window - 1

\* a += KGSL_TIMESTAMP_WINDOW on an unsigned int.
AddWindow(a) == IF a < Window THEN a + Window ELSE a - Window

\* a + n on an unsigned int, n \in Timestamp.
AddTimestamp(a, n) ==
    IF a + n < 2 * Window THEN a + n ELSE a + n - 2 * Window

\* a - n on an unsigned int, n \in Timestamp.
SubTimestamp(a, n) == IF a >= n THEN a - n ELSE a - n + 2 * Window

\* Mutant: timestamps compared as plain integers.
CmpPlain(a, b) == IF a = b THEN 0 ELSE IF a > b THEN 1 ELSE -1

\* timestamp_cmp: 1, 0 or -1 as a is after, equal to or before b.
timestamp_cmp(a, b) ==
    IF a = b THEN 0
    ELSE IF a > b /\ a - b < Window THEN 1
    ELSE LET x == AddWindow(a)
             y == AddWindow(b)
         IN IF x > y /\ x - y <= Window THEN 1 ELSE -1

\* Mutant: a group is processed only when the timestamp is larger.
ProcessOnlyLarger(processed, now) == now > processed

\* _do_process_group: the retired timestamp has moved since the group was
\* last processed, and not backwards.
_do_process_group(processed, now) ==
    /\ processed # now
    /\ ~(now < processed /\ processed - now < Window)
=============================================================================
