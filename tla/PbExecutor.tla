------------------------------ MODULE PbExecutor ------------------------------
(* executor.proto: the two-phase dispatch and the resource broker.
   Per message, three tables, each read off the generated function of its name:
   what MarshalToSizedBuffer writes, from the last field to the first (tag, field, shape);
   what Size adds up (field, shape); and the cases of Unmarshal's switch (field
   number, wire type, field, how the value is stored). A field that points to a message also names its type. *)
EXTENDS Integers, Sequences

PreDispatchTaskRequest_Marshal == <<
    <<50, "RequestId", "bytes">>, <<42, "UserId", "bytes">>, <<34, "WorkerId", "bytes">>,
    <<26, "MasterId", "bytes">>, <<18, "TaskConfig", "bytes">>,
    <<8, "TaskTypeId", "varint">> >>
PreDispatchTaskRequest_Size == <<
    <<"TaskTypeId", "varint">>, <<"TaskConfig", "bytes">>, <<"MasterId", "bytes">>,
    <<"WorkerId", "bytes">>, <<"UserId", "bytes">>, <<"RequestId", "bytes">> >>
PreDispatchTaskRequest_Unmarshal == <<
    <<1, 0, "TaskTypeId", "word">>, <<2, 2, "TaskConfig", "bytes">>,
    <<3, 2, "MasterId", "bytes">>, <<4, 2, "WorkerId", "bytes">>,
    <<5, 2, "UserId", "bytes">>, <<6, 2, "RequestId", "bytes">> >>

PreDispatchTaskResponse_Marshal == << >>
PreDispatchTaskResponse_Size == << >>
PreDispatchTaskResponse_Unmarshal == << >>

ConfirmDispatchTaskRequest_Marshal == <<
    <<18, "RequestId", "bytes">>, <<10, "WorkerId", "bytes">> >>
ConfirmDispatchTaskRequest_Size == << <<"WorkerId", "bytes">>, <<"RequestId", "bytes">> >>
ConfirmDispatchTaskRequest_Unmarshal == <<
    <<1, 2, "WorkerId", "bytes">>, <<2, 2, "RequestId", "bytes">> >>

ConfirmDispatchTaskResponse_Marshal == << >>
ConfirmDispatchTaskResponse_Size == << >>
ConfirmDispatchTaskResponse_Unmarshal == << >>

RemoveLocalResourceRequest_Marshal == <<
    <<18, "CreatorId", "bytes">>, <<10, "ResourceId", "bytes">> >>
RemoveLocalResourceRequest_Size == <<
    <<"ResourceId", "bytes">>, <<"CreatorId", "bytes">> >>
RemoveLocalResourceRequest_Unmarshal == <<
    <<1, 2, "ResourceId", "bytes">>, <<2, 2, "CreatorId", "bytes">> >>

RemoveLocalResourceResponse_Marshal == << >>
RemoveLocalResourceResponse_Size == << >>
RemoveLocalResourceResponse_Unmarshal == << >>

\* The messages of the file.
ExecutorMessages == [
    PreDispatchTaskRequest |-> <<PreDispatchTaskRequest_Marshal, PreDispatchTaskRequest_Size, PreDispatchTaskRequest_Unmarshal>>,
    PreDispatchTaskResponse |-> <<PreDispatchTaskResponse_Marshal, PreDispatchTaskResponse_Size, PreDispatchTaskResponse_Unmarshal>>,
    ConfirmDispatchTaskRequest |-> <<ConfirmDispatchTaskRequest_Marshal, ConfirmDispatchTaskRequest_Size, ConfirmDispatchTaskRequest_Unmarshal>>,
    ConfirmDispatchTaskResponse |-> <<ConfirmDispatchTaskResponse_Marshal, ConfirmDispatchTaskResponse_Size, ConfirmDispatchTaskResponse_Unmarshal>>,
    RemoveLocalResourceRequest |-> <<RemoveLocalResourceRequest_Marshal, RemoveLocalResourceRequest_Size, RemoveLocalResourceRequest_Unmarshal>>,
    RemoveLocalResourceResponse |-> <<RemoveLocalResourceResponse_Marshal, RemoveLocalResourceResponse_Size, RemoveLocalResourceResponse_Unmarshal>> ]
==============================================================================
