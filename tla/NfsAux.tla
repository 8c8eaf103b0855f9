-------------------------------- MODULE NfsAux --------------------------------
(***************************************************************************)
(* The destructor of nfs_aux (src/sieve/las-auxiliary-data.cpp), run by    *)
(* several threads at once for the special-qs they finish, all merging    *)
(* into the same dest_rt.  A complete object folds the reports, timers and *)
(* post-sieve checksums of its threads into its own rt (private: all its   *)
(* subtasks are over), prints, then locks dest_rt->mm and accumulates rt   *)
(* into dest_rt.  An object that is not complete locks rt.mm, its own      *)
(* mutex, and accumulates into dest_rt under it.                           *)
(*                                                                         *)
(* A report is abstracted to its count of relations (rep.reports; the     *)
(* timer and the other counters of the report are accumulated by the same *)
(* statements).  "dest_rt->rep.accumulate_and_clear(rt.rep)" adds to plain *)
(* integers: a load of dest's counter and a store of the sum, which two    *)
(* destructors can interleave.  The one-sided checksums stand for both     *)
(* sides, which the loop treats alike.                                     *)
(***************************************************************************)
EXTENDS Naturals, FiniteSets, Functions, Folds

CONSTANTS
    Objects,        \* the nfs_aux objects being destroyed, one per special-q
    Threads,        \* the thread_data slots th of each object
    Reps,           \* the report counts a thread or an rt may hold
    ChecksumPrime,  \* sieve_checksum::checksum_prime
    NoOwner         \* a mutex nobody holds

ASSUME /\ Reps \subseteq Nat /\ ChecksumPrime \in Nat \ {0, 1}
       /\ NoOwner \notin Objects

Residues == 0..(ChecksumPrime - 1)

VARIABLES
    complete,   \* nfs_aux::complete
    rtRep,      \* rt.rep.reports of each object
    thRep,      \* th[t].rep.reports of each object
    checksum,   \* checksum_post_sieve of each object
    thChecksum, \* th[t].checksum_post_sieve of each object
    ownMM,      \* the holder of each object's rt.mm
    destMM,     \* the holder of dest_rt->mm
    destRep,    \* dest_rt->rep.reports
    tmp,        \* the value of dest_rt->rep.reports each destructor loaded
    pc,         \* "start", "lock", "load", "store", "unlock", "done"
    handed      \* history: the reports each destructor is to hand over

vars == <<complete, rtRep, thRep, checksum, thChecksum, ownMM, destMM,
          destRep, tmp, pc, handed>>

-----------------------------------------------------------------------------
(* Helpers translating the source.                                         *)

\* sieve_checksum::update(other): ularith_addmod_ul_ul modulo checksum_prime
Update(c, other) == (c + other) % ChecksumPrime

\* the loop over th: rt.rep and the checksum accumulate every thread's
SumReps(o) == rtRep[o] + SumFunction(thRep[o])
FoldChecksums(o) ==
    FoldFunctionOnSet(LAMBDA x, c : Update(c, x), checksum[o], thChecksum[o], Threads)

-----------------------------------------------------------------------------
(* Actions: each object's destructor, one step per shared access.          *)

\* Objects of both kinds, with the reports their threads and rt gathered.
Init ==
    /\ complete \in [Objects -> BOOLEAN]
    /\ rtRep \in [Objects -> Reps]
    /\ thRep \in [Objects -> [Threads -> Reps]]
    /\ checksum \in [Objects -> Residues]
    /\ thChecksum \in [Objects -> [Threads -> Residues]]
    /\ ownMM = [o \in Objects |-> NoOwner]
    /\ destMM = NoOwner
    /\ destRep = 0
    /\ tmp = [o \in Objects |-> 0]
    /\ pc = [o \in Objects |-> "start"]
    /\ handed = [o \in Objects |->
                    rtRep[o] + IF complete[o] THEN SumFunction(thRep[o]) ELSE 0]

\* Entry: a complete object folds its threads into rt (and prints);
\* either kind then goes for its lock.
Start(o) ==
    /\ pc[o] = "start"
    /\ IF complete[o]
       THEN /\ rtRep' = [rtRep EXCEPT ![o] = SumReps(o)]
            /\ thRep' = [thRep EXCEPT ![o] = [t \in Threads |-> 0]]
            /\ checksum' = [checksum EXCEPT ![o] = FoldChecksums(o)]
       ELSE UNCHANGED <<rtRep, thRep, checksum>>
    /\ pc' = [pc EXCEPT ![o] = "lock"]
    /\ UNCHANGED <<complete, handed, thChecksum, ownMM, destMM, destRep, tmp>>

\* std::lock_guard: rt.mm (line 37) or dest_rt->mm (line 147), once free.
Lock(o) ==
    /\ pc[o] = "lock"
    /\ IF complete[o]
       THEN destMM = NoOwner /\ destMM' = o /\ UNCHANGED ownMM
       ELSE ownMM[o] = NoOwner /\ ownMM' = [ownMM EXCEPT ![o] = o]
            /\ UNCHANGED destMM
    /\ pc' = [pc EXCEPT ![o] = "load"]
    /\ UNCHANGED <<complete, handed, rtRep, thRep, checksum, thChecksum, destRep, tmp>>

\* accumulate_and_clear, first half: read dest_rt's counter.
Load(o) ==
    /\ pc[o] = "load"
    /\ tmp' = [tmp EXCEPT ![o] = destRep]
    /\ pc' = [pc EXCEPT ![o] = "store"]
    /\ UNCHANGED <<complete, handed, rtRep, thRep, checksum, thChecksum, ownMM,
                   destMM, destRep>>

\* accumulate_and_clear, second half: store the sum, clear rt.rep.
Store(o) ==
    /\ pc[o] = "store"
    /\ destRep' = tmp[o] + rtRep[o]
    /\ rtRep' = [rtRep EXCEPT ![o] = 0]
    /\ pc' = [pc EXCEPT ![o] = "unlock"]
    /\ UNCHANGED <<complete, handed, thRep, checksum, thChecksum, ownMM, destMM, tmp>>

\* The lock_guard goes out of scope and the destructor returns.
Unlock(o) ==
    /\ pc[o] = "unlock"
    /\ IF complete[o]
       THEN destMM' = NoOwner /\ UNCHANGED ownMM
       ELSE ownMM' = [ownMM EXCEPT ![o] = NoOwner] /\ UNCHANGED destMM
    /\ pc' = [pc EXCEPT ![o] = "done"]
    /\ UNCHANGED <<complete, handed, rtRep, thRep, checksum, thChecksum, destRep, tmp>>

Next == \E o \in Objects :
            Start(o) \/ Lock(o) \/ Load(o) \/ Store(o) \/ Unlock(o)

Spec == Init /\ [][Next]_vars

-----------------------------------------------------------------------------
(* Properties.                                                             *)

\* Once every nfs_aux has been destroyed, dest_rt holds the relations that
\* all of them handed over: rt.rep, and th[].rep for a complete one.  The
\* lock of line 147 is there so that no destructor's accumulate_and_clear
\* into dest_rt is lost; the one of line 37 must protect the same counters.
ReportsMerged ==
    (\A o \in Objects : pc[o] = "done") => destRep = SumFunction(handed)
=============================================================================
