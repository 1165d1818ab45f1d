-------------------------------- MODULE Sieve --------------------------------
(***************************************************************************)
(* erastothenes_pthreads/erast.c: the sieve over a packed array of bits.    *)
(* For each prime p up to the root of MAX the threads clear the multiples   *)
(* of p, each those of its residue; a bit is cleared by reading its byte    *)
(* and writing it back under the semaphore of the byte's region.            *)
(*                                                                          *)
(* isprime is the set of the numbers whose bit is set.  The array comes     *)
(* from malloc and the bit of MAX is not written before the loop, so its    *)
(* first value is arbitrary (unless it lies in byte 0, which is).           *)
(***************************************************************************)
EXTENDS Naturals

CONSTANTS
  SieveSizes,    \* the values of MAX
  CODE_LENGTH,   \* bits in a byte
  NUM_THREADS,   \* threads, an even number
  NUM_LOCKS      \* regions of the array

\* The array has room for a prime, and the threads are numbered in pairs
ASSUME SieveAssumption ==
  /\ SieveSizes \subseteq Nat \ 0..3 /\ CODE_LENGTH \in Nat \ 0..2
  /\ NUM_THREADS \in Nat \ {0} /\ NUM_THREADS % 2 = 0 /\ NUM_LOCKS \in Nat \ {0}

SieveThreads == 0..NUM_THREADS - 1

VARIABLES
  MAX,
  isprime,        \* the bits that are set
  freeLocks,      \* regions whose semaphore is not taken
  sievePc,        \* main: "init", "create", "join", "next", "done"
  created,        \* main's thread_idx
  p,
  grid,           \* each thread: "none", "loop", "write", "exit"
  gridJ,          \* its thargs.j
  oldByte         \* the byte it has read

sieveVars == <<MAX, isprime, freeLocks, sievePc, created, p, grid, gridJ, oldByte>>

ByteOf(n) == n \div CODE_LENGTH
LockOf(n) == ByteOf(n) % NUM_LOCKS

\* What the state is made of
SieveTypeOK ==
  /\ MAX \in SieveSizes /\ isprime \subseteq 0..MAX
  /\ freeLocks \subseteq 0..NUM_LOCKS - 1
  /\ sievePc \in {"init", "create", "join", "next", "done"}
  /\ created \in 0..NUM_THREADS /\ p \in 2..MAX
  /\ grid \in [SieveThreads -> {"none", "loop", "write", "exit"}]
  /\ gridJ \in [SieveThreads -> 0..(NUM_THREADS + 1) * MAX]
  /\ \A t \in SieveThreads : oldByte[t] \subseteq 0..MAX

Prime(n) == n > 1 /\ \A d \in 2..(n - 1) : n % d # 0

\* a run that begins, or one that is over
SieveInitAt(at) ==
  /\ MAX \in SieveSizes
  /\ isprime \in IF at = "init" THEN {{}, {MAX}} ELSE {{n \in 0..MAX : Prime(n)}}
  /\ freeLocks = {} /\ sievePc = at /\ created = 0 /\ p = 2
  /\ grid = [t \in SieveThreads |-> "none"]
  /\ gridJ = [t \in SieveThreads |-> 0]
  /\ oldByte = [t \in SieveThreads |-> {}]

\* threadID: pairs from the two ends
threadID(t) == IF t % 2 = 0 THEN (NUM_THREADS - 1) - t ELSE t - 1

chk_isprime(n) == n \in isprime

\* the semaphores are posted; byte 0 becomes 0xFC, then 2..MAX-1 are set
FirstBits ==
  /\ sievePc = "init" /\ sievePc' = "create"
  /\ freeLocks' = 0..NUM_LOCKS - 1
  /\ isprime' = {n \in 2..MAX : n < CODE_LENGTH \/ n < MAX \/ n \in isprime}
  /\ UNCHANGED <<created, p, grid, gridJ>>

CreateGrid ==
  /\ sievePc = "create"
  /\ IF created < NUM_THREADS
       THEN /\ grid' = [grid EXCEPT ![created] = "loop"]
            /\ gridJ' = [gridJ EXCEPT ![created] = 2 * p]
            /\ created' = created + 1
            /\ UNCHANGED sievePc
       ELSE sievePc' = "join" /\ created' = 0 /\ UNCHANGED <<grid, gridJ>>
  /\ UNCHANGED <<isprime, freeLocks, p>>

\* pthread_join of the threads in turn
JoinGrid ==
  /\ sievePc = "join"
  /\ IF created < NUM_THREADS
       THEN grid[created] = "exit" /\ created' = created + 1 /\ UNCHANGED sievePc
       ELSE sievePc' = "next" /\ created' = 0
  /\ UNCHANGED <<isprime, freeLocks, p, grid, gridJ>>

\* the next number whose bit is set, and back to the test of p*p <= MAX
NextPrime ==
  /\ sievePc = "next"
  /\ LET found == {n \in (p + 1)..MAX : chk_isprime(n)} IN
       p' = IF found = {} THEN p ELSE CHOOSE n \in found : \A m \in found : n <= m
  /\ sievePc' = IF p' * p' <= MAX THEN "create" ELSE "done"
  /\ UNCHANGED <<isprime, freeLocks, created, grid, gridJ>>

sieve_main ==
  /\ FirstBits \/ CreateGrid \/ JoinGrid \/ NextPrime
  /\ UNCHANGED <<MAX, oldByte>>

\* the number the thread clears next
Multiple(t) == gridJ[t] + threadID(t) * p

NeverWaits(n) == freeLocks # {}

\* sem_wait(&updateIsPrime[idx % NUM_LOCKS])
SemFree(n) == LockOf(n) \in freeLocks

\* the thread reads the byte under the lock, or it has passed MAX+1
GridRead(t) ==
  /\ grid[t] = "loop"
  /\ IF gridJ[t] >= MAX + 1 \/ Multiple(t) > MAX + 1
       THEN /\ grid' = [grid EXCEPT ![t] = "exit"]
            /\ UNCHANGED <<freeLocks, oldByte>>
       ELSE /\ SemFree(Multiple(t))
            /\ freeLocks' = freeLocks \ {LockOf(Multiple(t))}
            /\ oldByte' = [oldByte EXCEPT ![t] =
                             {n \in isprime : ByteOf(n) = ByteOf(Multiple(t))}]
            /\ grid' = [grid EXCEPT ![t] = "write"]
  /\ UNCHANGED <<isprime, gridJ>>

\* sem_post
Posted(n) == freeLocks \cup {LockOf(n)}

\* it writes the byte back without the bit, posts, and steps
GridWrite(t) ==
  /\ grid[t] = "write"
  /\ isprime' = {n \in isprime : ByteOf(n) # ByteOf(Multiple(t))}
                  \cup (oldByte[t] \ {Multiple(t)})
  /\ freeLocks' = Posted(Multiple(t))
  /\ gridJ' = [gridJ EXCEPT ![t] = @ + NUM_THREADS * p]
  /\ grid' = [grid EXCEPT ![t] = "loop"]
  /\ UNCHANGED oldByte

invalidate_thread(t) ==
  /\ GridRead(t) \/ GridWrite(t)
  /\ UNCHANGED <<MAX, sievePc, created, p>>

SieveNext == sieve_main \/ \E t \in SieveThreads : invalidate_thread(t)

\* threads run; none is overtaken for ever, since each takes a semaphore a
\* finite number of times
SieveFairness ==
  WF_sieveVars(sieve_main) /\ \A t \in SieveThreads : WF_sieveVars(invalidate_thread(t))

SieveSpec == SieveInitAt("init") /\ [][SieveNext]_sieveVars

\* The numbers the program counts are the primes up to MAX: no clearing of a
\* bit was lost to another thread that wrote the same byte, and the scrambled
\* threads cover every multiple.  MAX itself is right if it is not prime.
SieveExact ==
  sievePc = "done" =>
    \A n \in 0..MAX : (n = MAX /\ Prime(n)) \/ (chk_isprime(n) <=> Prime(n))

\* The sieve ends: every thread gets the semaphores it waits for and is
\* joined, and there is always a next prime.
SieveEnds == <>(sievePc = "done")
=============================================================================
