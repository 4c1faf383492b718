-------------------------- MODULE MCChannelAdmission --------------------------
(* Three requests of a channel whose limits are changed under them.          *)
EXTENDS ChannelAdmission, TLC

MCConfigs ==
    {[capacity |-> 1, queueSize |-> 1, rpm |-> 2, deleted |-> FALSE],
     [capacity |-> 2, queueSize |-> 0, rpm |-> 0, deleted |-> FALSE],
     [capacity |-> 0, queueSize |-> 0, rpm |-> 2, deleted |-> FALSE]}

MCSymmetry == Permutations(Requests)
===============================================================================
