---------------------------- MODULE MCCgroupScan ----------------------------
(* CgroupScan for TLC: a job with a step and a task, a step under the task, *)
(* a job nested in the task, and a job under a directory that is none.      *)
EXTENDS CgroupScan

Seg(prefix, digits, rest) == [prefix |-> prefix, digits |-> digits, rest |-> rest]

job1  == Seg("job_", 1, "")
job2  == Seg("job_", 2, "")
batch == Seg("step_", NoDigits, "batch")
step0 == Seg("step_", 0, "")
task0 == Seg("task_", 0, "")

\* A name that only looks like a job's: its number does not fit.
junk  == Seg("job_", MaxId + 1, "")

MCRoot == <<Seg("", NoDigits, "slurm")>>

MCPaths ==
    { <<job1>>, <<job1, batch>>, <<job1, batch, task0>>, <<job1, batch, task0, step0>>,
      <<job1, batch, task0, job2>>,
      <<junk>>, <<junk, job2>> }
=============================================================================
