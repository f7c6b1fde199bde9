---------------------------- MODULE MCCapability ----------------------------
(***************************************************************************)
(* Capability on a small instance: init holds a role with all rights, a     *)
(* driver holds a port with READ and WRITE only, and there is a program.    *)
(***************************************************************************)
EXTENDS Capability

MCRootGrants ==
    {[task |-> "init",   object |-> "role", rights |-> AllRights],
     [task |-> "driver", object |-> "port", rights |-> {"READ", "WRITE"}]}

MCRequests == {{"SEND"}, {"SEND", "GRANT"}, {"READ", "GRANT", "bit5"}}
=============================================================================
