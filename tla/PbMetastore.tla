------------------------------ MODULE PbMetastore ------------------------------
(* metastore.proto: registration and lookup of meta stores.
   Per message, three tables, each read off the generated function of its name:
   what MarshalToSizedBuffer writes, from the last field to the first (tag, field, shape);
   what Size adds up (field, shape); and the cases of Unmarshal's switch (field
   number, wire type, field, how the value is stored). A field that points to a message also names its type. *)
EXTENDS Integers, Sequences

RegisterMetaStoreRequest_Marshal == <<
    <<16, "Tp", "varint">>, <<10, "Address", "bytes">> >>
RegisterMetaStoreRequest_Size == << <<"Address", "bytes">>, <<"Tp", "varint">> >>
RegisterMetaStoreRequest_Unmarshal == <<
    <<1, 2, "Address", "bytes">>, <<2, 0, "Tp", "int32">> >>

RegisterMetaStoreResponse_Marshal == << <<10, "Err", "ptr", "Error">> >>
RegisterMetaStoreResponse_Size == << <<"Err", "ptr", "Error">> >>
RegisterMetaStoreResponse_Unmarshal == << <<1, 2, "Err", "ptr", "Error">> >>

QueryMetaStoreRequest_Marshal == << <<8, "Tp", "varint">> >>
QueryMetaStoreRequest_Size == << <<"Tp", "varint">> >>
QueryMetaStoreRequest_Unmarshal == << <<1, 0, "Tp", "int32">> >>

QueryMetaStoreResponse_Marshal == <<
    <<18, "Address", "bytes">>, <<10, "Err", "ptr", "Error">> >>
QueryMetaStoreResponse_Size == << <<"Err", "ptr", "Error">>, <<"Address", "bytes">> >>
QueryMetaStoreResponse_Unmarshal == <<
    <<1, 2, "Err", "ptr", "Error">>, <<2, 2, "Address", "bytes">> >>

\* The messages of the file.
MetastoreMessages == [
    RegisterMetaStoreRequest |-> <<RegisterMetaStoreRequest_Marshal, RegisterMetaStoreRequest_Size, RegisterMetaStoreRequest_Unmarshal>>,
    RegisterMetaStoreResponse |-> <<RegisterMetaStoreResponse_Marshal, RegisterMetaStoreResponse_Size, RegisterMetaStoreResponse_Unmarshal>>,
    QueryMetaStoreRequest |-> <<QueryMetaStoreRequest_Marshal, QueryMetaStoreRequest_Size, QueryMetaStoreRequest_Unmarshal>>,
    QueryMetaStoreResponse |-> <<QueryMetaStoreResponse_Marshal, QueryMetaStoreResponse_Size, QueryMetaStoreResponse_Unmarshal>> ]
==============================================================================
