---------------------------- MODULE MCConnection ----------------------------
(***************************************************************************)
(* A connection for TLC: clients that send two requests, of which the      *)
(* second may be a request to upgrade or a malformed one, and responses    *)
(* that consist of a buffer and a file.                                    *)
(***************************************************************************)
EXTENDS Connection

MCPlans == {<<"plain", "plain">>, <<"plain", "upgrade">>, <<"plain", "bad">>}
MCPlainPlans == {<<"plain", "plain">>}
MCUpgradePlans == {<<"plain", "upgrade">>}
MCItemLists == {<<"buf", "file">>}
MCBufs == {<<"buf">>}
MCAllFaults == {"read", "write", "handler", "notificator"}
=============================================================================
