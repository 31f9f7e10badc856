---------------------------- MODULE MCFuseLibrary ---------------------------
(***************************************************************************)
(* Instances of the components whose properties are about what may never    *)
(* happen, and of the two tables that implement a simpler one (record locks  *)
(* and node hashes).  The components share no state: a behaviour runs one    *)
(* of them, chosen in the initial state, and leaves the others as they are.  *)
(***************************************************************************)
EXTENDS FuseInit, FusePipe, FuseBuf, FuseOpt, FuseHandles, FuseSlab, FuseDirBuf,
        FuseAutoCache, CuseDevice, PassthroughLl, PassthroughHp, FuseRecordLocks, FuseTables

VARIABLE part    \* the component that runs

Parts == {"init", "pipe", "buffers", "options", "handles", "slabs", "readdir",
          "autocache", "cuse", "passthrough_ll", "passthrough_hp", "records", "tables"}
vars == <<part, initVars, pipeVars, bufVars, optVars, handleVars, slabVars, dirVars,
          autoVars, cuseVars, loVars, hpVars, lockVars, tableVars>>

(* A component that does not run has one initial state.                     *)
OthersRest ==
    /\ part # "init" =>
          /\ kin = [major |-> 7, minor |-> 38, flags |-> {}, pages |-> TRUE, ext |-> TRUE]
          /\ fs = [ops |-> {}, path |-> TRUE]
          /\ sess = [bufsize |-> SessionBuffer, internal |-> TRUE, exited |-> FALSE]
    /\ part # "buffers" =>
          /\ srcv = [size |-> <<2>>, kind |-> "mem", idx |-> 1, off |-> 0]
          /\ dstv = srcv
    /\ part # "options" => argv = <<>>
    /\ part # "readdir" => mode = "list" /\ content = <<>>

Init ==
    /\ part \in Parts
    /\ OthersRest
    /\ InitInit
    /\ PipeInit
    /\ BufInit
    /\ OptInit
    /\ HandlesInit
    /\ SlabInit
    /\ DirInit
    /\ AutoInit
    /\ CuseInit
    /\ LoInit
    /\ HpInit
    /\ LocksInit
    /\ TablesInit

Next ==
    /\ UNCHANGED part
    /\ IF part = "init" THEN InitNext ELSE UNCHANGED initVars
    /\ IF part = "pipe" THEN PipeNext ELSE UNCHANGED pipeVars
    /\ IF part = "buffers" THEN BufNext ELSE UNCHANGED bufVars
    /\ IF part = "options" THEN OptNext ELSE UNCHANGED optVars
    /\ IF part = "handles" THEN HandlesNext ELSE UNCHANGED handleVars
    /\ IF part = "slabs" THEN SlabNext ELSE UNCHANGED slabVars
    /\ IF part = "readdir" THEN DirNext ELSE UNCHANGED dirVars
    /\ IF part = "autocache" THEN AutoNext ELSE UNCHANGED autoVars
    /\ IF part = "cuse" THEN CuseNext ELSE UNCHANGED cuseVars
    /\ IF part = "passthrough_ll" THEN LoNext ELSE UNCHANGED loVars
    /\ IF part = "passthrough_hp" THEN HpNext ELSE UNCHANGED hpVars
    /\ IF part = "records" THEN LocksNext ELSE UNCHANGED lockVars
    /\ IF part = "tables" THEN TablesNext ELSE UNCHANGED tableVars

Spec == Init /\ [][Next]_vars

(* Owners of locks are only compared.                                       *)
Sym == Permutations(Owners)

-----------------------------------------------------------------------------
(* Command lines of up to three arguments, and the options that each of     *)
(* three passes knows.                                                      *)
Arguments ==
    {Arg("word", <<"m">>), Arg("flag", <<"x">>), Arg("flag", <<"y">>), Arg("--", <<"-">>),
     Arg("sep", <<"n">>), Arg("group", <<"a">>), Arg("group", <<"b", ",", "c">>),
     Arg("group", <<"b", "\\", ",", "c">>), Arg("group", <<"\\", "\\">>),
     Arg("group", <<",", "a", ",", "c", "\\">>)}
MCCommandLines == UNION {[1..n -> Arguments] : n \in 0..3}
MCKnownOptions == << {<<"a">>, <<"x">>, <<"n">>}, {<<"c">>}, {<<"b">>, <<"y">>} >>

(* Buffer vectors, by the sizes of their buffers.                           *)
MCVectors ==
    {<<2>>, <<1, 1>>, <<0, 2>>, <<1, 0, 1>>, <<2, 1>>, <<3>>, <<1, 2, 1>>, <<0>>}
=============================================================================
