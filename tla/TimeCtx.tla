------------------------------ MODULE TimeCtx ------------------------------
(***************************************************************************)
(* The wire sequence number of a pose snapshot (PoseSnapshotBody.time_ctx) *)
(* and the test that decides whether a received one is fresh.  The code    *)
(* uses uint16_t arithmetic, so CtxMod is 65536 there; the model keeps the *)
(* modulus as a parameter.                                                 *)
(***************************************************************************)
EXTENDS Integers

CONSTANT CtxMod  \* 2^16 in the code

ASSUME CtxModAssumption == CtxMod \in Nat /\ CtxMod >= 4 /\ CtxMod % 2 = 0

HalfCtx == CtxMod \div 2

Ctx == 0 .. CtxMod - 1

\* m_send_time_ctx++ on a uint16_t.
NextCtx(tc) == IF tc = CtxMod - 1 THEN 0 ELSE tc + 1

\* The initial m_last_time_ctx, 0xFFFF.
InitialCtx == CtxMod - 1

\* static_cast<uint16_t>(tc - last), for tc and last in Ctx.
CtxDelta(tc, last) == IF tc >= last THEN tc - last ELSE tc - last + CtxMod

\* on_remote_packet keeps a packet iff !(delta >= 32768).
IsFreshAlways(tc, last) == TRUE
AsSigned(tc) == IF tc < HalfCtx THEN tc ELSE tc - CtxMod
IsFreshSigned(tc, last) == AsSigned(tc) > AsSigned(last)
IsFresh(tc, last) == CtxDelta(tc, last) < HalfCtx
=============================================================================
