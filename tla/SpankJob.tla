------------------------------- MODULE SpankJob -------------------------------
(***************************************************************************)
(* spank_msrsafe.c: the SLURM plugin, which saves the registers in the     *)
(* prolog of a job and restores them in the epilog, over MsrSave.  SLURM   *)
(* gives the node to a job, and takes it back to the pool after the epilog;*)
(* only a negative result of a prolog would keep it from running the job.  *)
(***************************************************************************)
EXTENDS MsrSave

CONSTANT Descriptors   \* what mkstemp may return when it succeeds

VARIABLES jpc,       \* where the node is between "pool" and "pool"
          granted,   \* history: the registers when the job was given the node
          left,      \* history: the registers as the last job left them
          skipped    \* history: the phases of this job without a call of msrsave

job == <<jpc, granted, left, skipped>>
jvars == <<svars, job>>

Operation == [prolog |-> "save", epilog |-> "restore"]
After == [prolog |-> "job", epilog |-> "pool"]

Grant ==
  /\ jpc = "pool" /\ jpc' = "prolog"
  /\ granted' = msr /\ skipped' = {}
  /\ UNCHANGED <<svars, left>>

Skip(phase) ==
  /\ jpc' = After[phase]
  /\ skipped' = skipped \cup {phase}

\* gethostname or mkstemp fails.
PluginFails(phase) ==
  /\ jpc = phase /\ spc = "idle" /\ Skip(phase)
  /\ Trouble
  /\ UNCHANGED <<machine, admin, file, spc, locals, pos, history, granted, left>>

\* err = mkstemp(out_log_name); if (err): the descriptor is taken for an error.
PluginTakesLog(phase) ==
  /\ jpc = phase /\ spc = "idle"
  /\ \E err_ \in Descriptors :
       IF err_ # 0
       THEN Skip(phase) /\ UNCHANGED svars
       ELSE Call(Operation[phase]) /\ UNCHANGED <<jpc, skipped>>
  /\ UNCHANGED <<granted, left>>

PluginReturns(phase) ==
  /\ jpc = phase /\ jpc' = After[phase]
  /\ Return
  /\ UNCHANGED <<granted, left, skipped>>

JobRuns ==
  /\ jpc = "job"
  /\ \/ jpc' = "epilog" /\ left' = msr /\ UNCHANGED svars
     \/ JobWrites /\ UNCHANGED <<jpc, left>>
  /\ UNCHANGED <<granted, skipped>>

-----------------------------------------------------------------------------
JobInit ==
  SaveInit /\ jpc = "pool" /\ granted = PowerOn /\ left = PowerOn /\ skipped = {}

JobNext ==
  \/ Grant \/ JobRuns
  \/ \E phase \in {"prolog", "epilog"} :
       PluginFails(phase) \/ PluginTakesLog(phase) \/ PluginReturns(phase)
  \/ CallStep /\ spc # "return" /\ UNCHANGED job
  \/ (ReplaceList \/ Tick \/ Hotplug) /\ UNCHANGED job

JobSpec == JobInit /\ [][JobNext]_jvars

-----------------------------------------------------------------------------
\* No register that msrsave saves whole holds the value that it writes for a bad read.
CookieFree(regs) ==
  \A c \in CPUs : \A i \in DOMAIN Initial :
    Initial[i].mask = Bits => regs[c][Initial[i].msr] # Cookie

(***************************************************************************)
(* What the plugin does for a job, by what mkstemp has returned in its two *)
(* phases.  If the plugin has taken neither descriptor for an error, the   *)
(* job's registers are back, each of all CPUs, when the node goes back to  *)
(* the pool, unless something fails or a saved register held the cookie.   *)
(* If it took that of the epilog for an error, every register is as the    *)
(* job left it, whatever else happens.                                     *)
(***************************************************************************)
ResetUnlessSkipped ==
  jpc = "pool" =>
    /\ troubles = 0 /\ skipped = {} /\ CookieFree(granted) => msr = granted
    /\ "epilog" \in skipped => msr = left

(***************************************************************************)
(* spank_msrsafe.c:9-12, "The purpose of this slurm plugin is to ensure    *)
(* that MSRs modified within a user's slurm job allocation are reset to    *)
(* their original state before the compute node is returned to the pool":  *)
(* at least when nothing fails meanwhile.                                  *)
(***************************************************************************)
RegistersReset == jpc = "pool" /\ troubles = 0 => msr = granted
==============================================================================
