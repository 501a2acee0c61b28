----------------------------- MODULE MCProtoCodec -----------------------------
(* All messages of src/pb. *)
EXTENDS ProtoCodec, PbError, PbMaster, PbExecutor, PbResources, PbMetastore, PbDatarw, PbTest

AllMessages ==
    ErrorMessages @@ MasterMessages @@ ExecutorMessages @@ ResourcesMessages
        @@ MetastoreMessages @@ DatarwMessages @@ TestMessages
===============================================================================
