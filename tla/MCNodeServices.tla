--------------------------- MODULE MCNodeServices ---------------------------
(***************************************************************************)
(* The services of one node that share no state: its peer connections, the *)
(* users who log in, the token ledger and the sales.  A behaviour has      *)
(* steps of one of them, the others stay where they begin.                 *)
(***************************************************************************)
EXTENDS PeerConnections, WalletAuth, TokenLedger, SaleProtocol, TLC

ServicesInit == PeerInit /\ AuthInit /\ TokenInit /\ SaleInit

ServicesNext ==
   \/ AuthInit /\ TokenInit /\ SaleInit /\ PeerStep
      /\ UNCHANGED <<authVars, tokenVars, saleVars>>
   \/ PeerInit /\ TokenInit /\ SaleInit /\ AuthStep
      /\ UNCHANGED <<peerVars, tokenVars, saleVars>>
   \/ PeerInit /\ AuthInit /\ SaleInit /\ TokenStep
      /\ UNCHANGED <<peerVars, authVars, saleVars>>
   \/ PeerInit /\ AuthInit /\ TokenInit /\ SaleStep
      /\ UNCHANGED <<peerVars, authVars, tokenVars>>

servicesVars == <<peerVars, authVars, tokenVars, saleVars>>

ServicesSpec == ServicesInit /\ [][ServicesNext]_servicesVars

Symmetry == Permutations(PeerId) \cup Permutations(Sock) \cup Permutations(Secret)
               \cup Permutations(Nonce) \cup Permutations(AuthCall)

(* Every variable of the four keeps its type. *)
ServicesTypeOK == PeerTypeOK /\ AuthTypeOK /\ TokenTypeOK /\ SaleTypeOK
=============================================================================
