------------------------------ MODULE PbResources ------------------------------
(* resources.proto: the external resource manager.
   Per message, three tables, each read off the generated function of its name:
   what MarshalToSizedBuffer writes, from the last field to the first (tag, field, shape);
   what Size adds up (field, shape); and the cases of Unmarshal's switch (field
   number, wire type, field, how the value is stored). A field that points to a message also names its type. *)
EXTENDS Integers, Sequences

CreateResourceRequest_Marshal == <<
    <<34, "CreatorWorkerId", "bytes">>, <<26, "JobId", "bytes">>,
    <<18, "CreatorExecutor", "bytes">>, <<10, "ResourceId", "bytes">> >>
CreateResourceRequest_Size == <<
    <<"ResourceId", "bytes">>, <<"CreatorExecutor", "bytes">>, <<"JobId", "bytes">>,
    <<"CreatorWorkerId", "bytes">> >>
CreateResourceRequest_Unmarshal == <<
    <<1, 2, "ResourceId", "bytes">>, <<2, 2, "CreatorExecutor", "bytes">>,
    <<3, 2, "JobId", "bytes">>, <<4, 2, "CreatorWorkerId", "bytes">> >>

CreateResourceResponse_Marshal == << >>
CreateResourceResponse_Size == << >>
CreateResourceResponse_Unmarshal == << >>

QueryResourceRequest_Marshal == << <<10, "ResourceId", "bytes">> >>
QueryResourceRequest_Size == << <<"ResourceId", "bytes">> >>
QueryResourceRequest_Unmarshal == << <<1, 2, "ResourceId", "bytes">> >>

QueryResourceResponse_Marshal == <<
    <<34, "CreatorWorkerId", "bytes">>, <<26, "JobId", "bytes">>,
    <<18, "CreatorExecutor", "bytes">> >>
QueryResourceResponse_Size == <<
    <<"CreatorExecutor", "bytes">>, <<"JobId", "bytes">>, <<"CreatorWorkerId", "bytes">> >>
QueryResourceResponse_Unmarshal == <<
    <<2, 2, "CreatorExecutor", "bytes">>, <<3, 2, "JobId", "bytes">>,
    <<4, 2, "CreatorWorkerId", "bytes">> >>

RemoveResourceRequest_Marshal == << <<10, "ResourceId", "bytes">> >>
RemoveResourceRequest_Size == << <<"ResourceId", "bytes">> >>
RemoveResourceRequest_Unmarshal == << <<1, 2, "ResourceId", "bytes">> >>

RemoveResourceResponse_Marshal == << >>
RemoveResourceResponse_Size == << >>
RemoveResourceResponse_Unmarshal == << >>

ResourceError_Marshal == << <<18, "StackTrace", "bytes">>, <<8, "ErrorCode", "varint">> >>
ResourceError_Size == << <<"ErrorCode", "varint">>, <<"StackTrace", "bytes">> >>
ResourceError_Unmarshal == <<
    <<1, 0, "ErrorCode", "int32">>, <<2, 2, "StackTrace", "bytes">> >>

\* The messages of the file.
ResourcesMessages == [
    CreateResourceRequest |-> <<CreateResourceRequest_Marshal, CreateResourceRequest_Size, CreateResourceRequest_Unmarshal>>,
    CreateResourceResponse |-> <<CreateResourceResponse_Marshal, CreateResourceResponse_Size, CreateResourceResponse_Unmarshal>>,
    QueryResourceRequest |-> <<QueryResourceRequest_Marshal, QueryResourceRequest_Size, QueryResourceRequest_Unmarshal>>,
    QueryResourceResponse |-> <<QueryResourceResponse_Marshal, QueryResourceResponse_Size, QueryResourceResponse_Unmarshal>>,
    RemoveResourceRequest |-> <<RemoveResourceRequest_Marshal, RemoveResourceRequest_Size, RemoveResourceRequest_Unmarshal>>,
    RemoveResourceResponse |-> <<RemoveResourceResponse_Marshal, RemoveResourceResponse_Size, RemoveResourceResponse_Unmarshal>>,
    ResourceError |-> <<ResourceError_Marshal, ResourceError_Size, ResourceError_Unmarshal>> ]
==============================================================================
