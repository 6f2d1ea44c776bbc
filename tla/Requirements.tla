------------------------------- MODULE Requirements -------------------------------
(***************************************************************************)
(* What a container asks for, recovered from the numbers kubelet gives the *)
(* runtime: once when the container is created (the hook request) and once *)
(* when the policy is rebuilt (the container in the cache).  CPU is in     *)
(* milli-CPUs, memory in bytes and, once read, in KB.                      *)
(***************************************************************************)
EXTENDS Integers

MinShares == 2
SharesPerCPU == 1024
QuotaPeriod == 100000
MinQuotaPeriod == 1000

AtLeast(n, m) == IF n < m THEN m ELSE n

(***************************************************************************)
(* External: the CPU shares, the quota and the memory limit that kubelet   *)
(* computes for a container of a QoS class with this request, these limits *)
(* (0 where the pod's specification has none).  A kubelet that does not    *)
(* enforce CPU limits (--cpu-cfs-quota=false) sets neither quota nor period. *)
(***************************************************************************)
LinuxResources(class, request, limit, memory, cfsQuota) ==
  [class   |-> class,
   request |-> request,
   shares  |-> AtLeast((request * SharesPerCPU) \div 1000, MinShares),
   quota   |-> IF ~cfsQuota \/ limit = 0 THEN 0
               ELSE AtLeast(limit * (QuotaPeriod \div 1000), MinQuotaPeriod),
   period  |-> IF cfsQuota THEN QuotaPeriod ELSE 0,
   memory  |-> memory]

--------------------------------------------------------------------------------
\* int64(x / y + 0.5)
Round(x, y) == (2 * x + y) \div (2 * y)

\* A slip for the mutants: the conversion cuts off where kubelet has done so already.
SharesCutOff(shares) == IF shares = MinShares THEN 0 ELSE (shares * 1000) \div SharesPerCPU

SharesToMilliCPU(shares) ==
  IF shares = MinShares THEN 0 ELSE Round(shares * 1000, SharesPerCPU)

QuotaToMilliCPU(quota, period) ==
  IF quota = 0 \/ period = 0 THEN 0 ELSE Round(quota * 1000, period)

\* EstimateRequirements, of which newRequest reads the CPU request and the limits:
\* a Guaranteed container's CPU limit is its request, also where that was rounded.
EstimatedRequest(res, gpus) ==
  LET cpu == SharesToMilliCPU(res.shares)
  IN [cpu   |-> cpu,
      limit |-> IF res.class = "guaranteed" THEN cpu
                ELSE QuotaToMilliCPU(res.quota, res.period),
      mem   |-> res.memory \div 1024,
      gpus  |-> gpus]

\* A slip for the mutants: the CPU amount too is read from the quota.
RebuiltFromQuota(res) ==
  LET cpu == IF res.quota > 0 /\ res.period > 0 THEN Round(res.quota * 1000, res.period) ELSE 0
  IN [cpu |-> cpu, limit |-> cpu, mem |-> res.memory \div 1024]

\* createGrantFromContainer: Resources of a cached container are empty in every
\* mode, so that all amounts come from its LinuxReq.  Shares of 2 are 2 milli-CPUs
\* here, and the limit of a Guaranteed container is read from the quota too.
RebuiltAmounts(res) ==
  [cpu   |-> IF res.shares > 0 THEN Round(res.shares * 1000, SharesPerCPU) ELSE 0,
   limit |-> IF res.quota > 0 /\ res.period > 0 THEN Round(res.quota * 1000, res.period) ELSE 0,
   mem   |-> res.memory \div 1024]
===================================================================================
