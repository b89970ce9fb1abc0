------------------------------ MODULE JwtTokens ------------------------------
(***************************************************************************)
(* The token pairs minted by security/jwt/JwtTokenProvider.                *)
(*                                                                         *)
(* generateAccessToken and generateRefreshToken put into a token the       *)
(* username, the user id, the type, the issue time and the expiration      *)
(* time, and no identifier of their own (no "jti"); JWT times are whole    *)
(* seconds and HS256 is deterministic.  A pair is therefore determined by  *)
(* its user and the second it was minted in: two pairs minted for a user   *)
(* in one second are THE SAME pair.                                        *)
(*                                                                         *)
(* Time is a bounded clock, a tick standing for a second.                  *)
(***************************************************************************)
EXTENDS Naturals

CONSTANTS
    User,        \* user ids
    MaxTime,     \* bound of the clock
    AccessTTL,   \* jwt.expiration-minutes
    RefreshTTL   \* jwt.refresh-expiration-days

ASSUME TimeAssumption ==
    /\ MaxTime \in Nat
    /\ AccessTTL \in Nat \ {0}
    /\ RefreshTTL \in Nat
    /\ AccessTTL <= RefreshTTL

Time == 0 .. MaxTime

\* An access/refresh pair, as the registries keep it in a JwtInformation.
Pair == [user : User, iat : Time]
NoPair == [user |-> "none", iat |-> 0]

\* The pair generated for user u when the clock shows t.
MintedAt(u, t) == [user |-> u, iat |-> t]

\* exp.before(new Date()): exp is truncated to the second, new Date() is not.
AccessExpired(p, t)  == t >= p.iat + AccessTTL
RefreshExpired(p, t) == t >= p.iat + RefreshTTL

\* What both sweeps test before they drop a session.
SessionExpired(p, t) == AccessExpired(p, t) \/ RefreshExpired(p, t)
=============================================================================
