------------------------------ MODULE CoreAffinity ------------------------------
(***************************************************************************)
(* Pinning the calling thread to a core, as src/core_affinity.cpp asks     *)
(* each operating system for it, and what the kernel and its scheduler,    *)
(* which are not this code, do with the request.  Only Linux promises      *)
(* anything: after a successful call the thread runs on that core.         *)
(***************************************************************************)
EXTENDS Integers

CONSTANTS Cores,          \* logical cores of the machine
          NoCore          \* std::nullopt, and: nothing reported yet

VARIABLES platform,       \* which branch of the #if was compiled
          usable,         \* external: cores the system grants to the process
          affinity,       \* external: cores the scheduler may run the thread on
          running,        \* external: the core the thread is on
          pin             \* the PinResult of the last call, or NoCore

--------------------------------------------------------------------------------
Platforms == {"linux", "apple", "other"}
CPU_SETSIZE == 1024
EPERM == 1
EINVAL == 22
KERN_SUCCESS == 0
KERN_NOT_SUPPORTED == 46

PinResult(outcome, os_status) == [outcome |-> outcome, os_status |-> os_status]

(* CPU_ZERO and CPU_SET: a bit that a cpu_set_t does not have is not set.  *)
CpuSet(core_id) == {core_id} \cap 0 .. CPU_SETSIZE - 1

Init ==
    /\ platform \in Platforms
    /\ usable \in SUBSET Cores \ {{}}
    /\ affinity = usable /\ running \in usable
    /\ pin = NoCore

(* pthread_setaffinity_np returned 0: the thread has been moved.           *)
SetAffinity(set) ==
    /\ set \cap usable # {}
    /\ affinity' = set \cap usable
    /\ running' \in affinity'

(* Variant: the returned code is not looked at.                            *)
PinLinuxUnchecked(core_id) ==
    /\ platform = "linux"
    /\ SetAffinity(CpuSet(core_id)) \/ UNCHANGED <<affinity, running>>
    /\ pin' = PinResult("Pinned", 0)
    /\ UNCHANGED <<platform, usable>>

(* pin_current_thread_to_core, for Linux: the kernel refuses a set without *)
(* a usable core, a sandbox may refuse any; both leave everything as it was.*)
Refusals(core_id) == {EPERM} \cup {e \in {EINVAL} : CpuSet(core_id) \cap usable = {}}

PinLinux(core_id) ==
    /\ platform = "linux"
    /\ \/ /\ SetAffinity(CpuSet(core_id))
          /\ pin' = PinResult("Pinned", 0)
       \/ /\ \E rc \in Refusals(core_id) : pin' = PinResult("Unsupported", rc)
          /\ UNCHANGED <<affinity, running>>
    /\ UNCHANGED <<platform, usable>>

(* For macOS: core_id is a tag, a hint at most.                            *)
PinApple(core_id) ==
    /\ platform = "apple"
    /\ \E kr \in {KERN_SUCCESS, KERN_NOT_SUPPORTED} :
          pin' = PinResult(IF kr = KERN_SUCCESS THEN "BestEffortHint" ELSE "Unsupported", kr)
    /\ UNCHANGED <<platform, usable, affinity, running>>

PinOther(core_id) ==
    /\ platform = "other"
    /\ pin' = PinResult("Unsupported", 0)
    /\ UNCHANGED <<platform, usable, affinity, running>>

pin_current_thread_to_core(core_id) == PinLinux(core_id) \/ PinApple(core_id) \/ PinOther(core_id)

(* What current_core_id may answer.  sched_getcpu may fail.                *)
current_core_id == IF platform = "linux" THEN {running, NoCore} ELSE {NoCore}

(* The scheduler moves the thread, at any time.                            *)
Migrate ==
    /\ running' \in affinity \ {running}
    /\ UNCHANGED <<platform, usable, affinity, pin>>
================================================================================
