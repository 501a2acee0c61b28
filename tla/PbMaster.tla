------------------------------ MODULE PbMaster ------------------------------
(* master.proto: the requests and answers of the server master.
   Per message, three tables, each read off the generated function of its name:
   what MarshalToSizedBuffer writes, from the last field to the first (tag, field, shape);
   what Size adds up (field, shape); and the cases of Unmarshal's switch (field
   number, wire type, field, how the value is stored). A field that points to a message also names its type. *)
EXTENDS Integers, Sequences

HeartbeatRequest_Marshal == <<
    <<40, "Ttl", "varint">>, <<32, "Timestamp", "varint">>, <<24, "Status", "varint">>,
    <<16, "ResourceUsage", "varint">>, <<10, "ExecutorId", "bytes">> >>
HeartbeatRequest_Size == <<
    <<"ExecutorId", "bytes">>, <<"ResourceUsage", "varint">>, <<"Status", "varint">>,
    <<"Timestamp", "varint">>, <<"Ttl", "varint">> >>
HeartbeatRequest_Unmarshal == <<
    <<1, 2, "ExecutorId", "bytes">>, <<2, 0, "ResourceUsage", "int32">>,
    <<3, 0, "Status", "int32">>, <<4, 0, "Timestamp", "word">>, <<5, 0, "Ttl", "word">> >>

HeartbeatResponse_Marshal == <<
    <<26, "Addrs", "strings">>, <<18, "Leader", "bytes">>, <<10, "Err", "ptr", "Error">> >>
HeartbeatResponse_Size == <<
    <<"Err", "ptr", "Error">>, <<"Leader", "bytes">>, <<"Addrs", "strings">> >>
HeartbeatResponse_Unmarshal == <<
    <<1, 2, "Err", "ptr", "Error">>, <<2, 2, "Leader", "bytes">>,
    <<3, 2, "Addrs", "strings">> >>

SubmitJobRequest_Marshal == <<
    <<26, "User", "bytes">>, <<18, "Config", "bytes">>, <<8, "Tp", "varint">> >>
SubmitJobRequest_Size == <<
    <<"Tp", "varint">>, <<"Config", "bytes">>, <<"User", "bytes">> >>
SubmitJobRequest_Unmarshal == <<
    <<1, 0, "Tp", "int32">>, <<2, 2, "Config", "bytes">>, <<3, 2, "User", "bytes">> >>

QueryJobRequest_Marshal == << <<10, "JobId", "bytes">> >>
QueryJobRequest_Size == << <<"JobId", "bytes">> >>
QueryJobRequest_Unmarshal == << <<1, 2, "JobId", "bytes">> >>

WorkerInfo_Marshal == <<
    <<56, "Workload", "varint">>, <<48, "LastHbTime", "varint">>,
    <<40, "IsTombstone", "bool">>, <<34, "Config", "bytes">>, <<26, "Status", "bytes">>,
    <<18, "ExecutorId", "bytes">>, <<10, "Id", "bytes">> >>
WorkerInfo_Size == <<
    <<"Id", "bytes">>, <<"ExecutorId", "bytes">>, <<"Status", "bytes">>,
    <<"Config", "bytes">>, <<"IsTombstone", "bool">>, <<"LastHbTime", "varint">>,
    <<"Workload", "varint">> >>
WorkerInfo_Unmarshal == <<
    <<1, 2, "Id", "bytes">>, <<2, 2, "ExecutorId", "bytes">>, <<3, 2, "Status", "bytes">>,
    <<4, 2, "Config", "bytes">>, <<5, 0, "IsTombstone", "bool">>,
    <<6, 0, "LastHbTime", "word">>, <<7, 0, "Workload", "word">> >>

QueryJobResponse_Marshal == <<
    <<42, "Err", "ptr", "Error">>, <<34, "JobMasterInfo", "ptr", "WorkerInfo">>,
    <<24, "Status", "varint">>, <<18, "Config", "bytes">>, <<8, "Tp", "varint">> >>
QueryJobResponse_Size == <<
    <<"Tp", "varint">>, <<"Config", "bytes">>, <<"Status", "varint">>,
    <<"JobMasterInfo", "ptr", "WorkerInfo">>, <<"Err", "ptr", "Error">> >>
QueryJobResponse_Unmarshal == <<
    <<1, 0, "Tp", "word">>, <<2, 2, "Config", "bytes">>, <<3, 0, "Status", "int32">>,
    <<4, 2, "JobMasterInfo", "ptr", "WorkerInfo">>, <<5, 2, "Err", "ptr", "Error">> >>

CancelJobRequest_Marshal == << <<18, "JobIdStr", "bytes">>, <<8, "JobId", "varint">> >>
CancelJobRequest_Size == << <<"JobId", "varint">>, <<"JobIdStr", "bytes">> >>
CancelJobRequest_Unmarshal == <<
    <<1, 0, "JobId", "int32">>, <<2, 2, "JobIdStr", "bytes">> >>

PauseJobRequest_Marshal == << <<18, "JobIdStr", "bytes">>, <<8, "JobId", "varint">> >>
PauseJobRequest_Size == << <<"JobId", "varint">>, <<"JobIdStr", "bytes">> >>
PauseJobRequest_Unmarshal == <<
    <<1, 0, "JobId", "int32">>, <<2, 2, "JobIdStr", "bytes">> >>

SubmitJobResponse_Marshal == <<
    <<26, "JobIdStr", "bytes">>, <<16, "JobId", "varint">>, <<10, "Err", "ptr", "Error">> >>
SubmitJobResponse_Size == <<
    <<"Err", "ptr", "Error">>, <<"JobId", "varint">>, <<"JobIdStr", "bytes">> >>
SubmitJobResponse_Unmarshal == <<
    <<1, 2, "Err", "ptr", "Error">>, <<2, 0, "JobId", "int32">>,
    <<3, 2, "JobIdStr", "bytes">> >>

PauseJobResponse_Marshal == << <<10, "Err", "ptr", "Error">> >>
PauseJobResponse_Size == << <<"Err", "ptr", "Error">> >>
PauseJobResponse_Unmarshal == << <<1, 2, "Err", "ptr", "Error">> >>

CancelJobResponse_Marshal == << <<10, "Err", "ptr", "Error">> >>
CancelJobResponse_Size == << <<"Err", "ptr", "Error">> >>
CancelJobResponse_Unmarshal == << <<1, 2, "Err", "ptr", "Error">> >>

RegisterExecutorRequest_Marshal == <<
    <<24, "Capability", "varint">>, <<18, "Version", "bytes">>, <<10, "Address", "bytes">> >>
RegisterExecutorRequest_Size == <<
    <<"Address", "bytes">>, <<"Version", "bytes">>, <<"Capability", "varint">> >>
RegisterExecutorRequest_Unmarshal == <<
    <<1, 2, "Address", "bytes">>, <<2, 2, "Version", "bytes">>,
    <<3, 0, "Capability", "word">> >>

RegisterExecutorResponse_Marshal == <<
    <<18, "ExecutorId", "bytes">>, <<10, "Err", "ptr", "Error">> >>
RegisterExecutorResponse_Size == << <<"Err", "ptr", "Error">>, <<"ExecutorId", "bytes">> >>
RegisterExecutorResponse_Unmarshal == <<
    <<1, 2, "Err", "ptr", "Error">>, <<2, 2, "ExecutorId", "bytes">> >>

ScheduleTaskRequest_Marshal == <<
    <<26, "ResourceRequirements", "strings">>, <<16, "Cost", "varint">>,
    <<10, "TaskId", "bytes">> >>
ScheduleTaskRequest_Size == <<
    <<"TaskId", "bytes">>, <<"Cost", "varint">>, <<"ResourceRequirements", "strings">> >>
ScheduleTaskRequest_Unmarshal == <<
    <<1, 2, "TaskId", "bytes">>, <<2, 0, "Cost", "word">>,
    <<3, 2, "ResourceRequirements", "strings">> >>

ScheduleTaskResponse_Marshal == <<
    <<18, "ExecutorAddr", "bytes">>, <<10, "ExecutorId", "bytes">> >>
ScheduleTaskResponse_Size == << <<"ExecutorId", "bytes">>, <<"ExecutorAddr", "bytes">> >>
ScheduleTaskResponse_Unmarshal == <<
    <<1, 2, "ExecutorId", "bytes">>, <<2, 2, "ExecutorAddr", "bytes">> >>

ExecWorkload_Marshal == << <<16, "Usage", "varint">>, <<8, "Tp", "varint">> >>
ExecWorkload_Size == << <<"Tp", "varint">>, <<"Usage", "varint">> >>
ExecWorkload_Unmarshal == << <<1, 0, "Tp", "int32">>, <<2, 0, "Usage", "int32">> >>

ExecWorkloadRequest_Marshal == <<
    <<26, "ResourceId", "strings">>, <<18, "Workloads", "msgs", "ExecWorkload">>,
    <<10, "ExecutorId", "bytes">> >>
ExecWorkloadRequest_Size == <<
    <<"ExecutorId", "bytes">>, <<"Workloads", "msgs", "ExecWorkload">>,
    <<"ResourceId", "strings">> >>
ExecWorkloadRequest_Unmarshal == <<
    <<1, 2, "ExecutorId", "bytes">>, <<2, 2, "Workloads", "msgs", "ExecWorkload">>,
    <<3, 2, "ResourceId", "strings">> >>

ExecWorkloadResponse_Marshal == << <<10, "Err", "ptr", "Error">> >>
ExecWorkloadResponse_Size == << <<"Err", "ptr", "Error">> >>
ExecWorkloadResponse_Unmarshal == << <<1, 2, "Err", "ptr", "Error">> >>

PersistResourceRequest_Marshal == <<
    <<18, "ResourceId", "bytes">>, <<10, "ExecutorId", "bytes">> >>
PersistResourceRequest_Size == << <<"ExecutorId", "bytes">>, <<"ResourceId", "bytes">> >>
PersistResourceRequest_Unmarshal == <<
    <<1, 2, "ExecutorId", "bytes">>, <<2, 2, "ResourceId", "bytes">> >>

PersistResourceResponse_Marshal == << <<10, "Err", "ptr", "Error">> >>
PersistResourceResponse_Size == << <<"Err", "ptr", "Error">> >>
PersistResourceResponse_Unmarshal == << <<1, 2, "Err", "ptr", "Error">> >>

\* The messages of the file.
MasterMessages == [
    HeartbeatRequest |-> <<HeartbeatRequest_Marshal, HeartbeatRequest_Size, HeartbeatRequest_Unmarshal>>,
    HeartbeatResponse |-> <<HeartbeatResponse_Marshal, HeartbeatResponse_Size, HeartbeatResponse_Unmarshal>>,
    SubmitJobRequest |-> <<SubmitJobRequest_Marshal, SubmitJobRequest_Size, SubmitJobRequest_Unmarshal>>,
    QueryJobRequest |-> <<QueryJobRequest_Marshal, QueryJobRequest_Size, QueryJobRequest_Unmarshal>>,
    WorkerInfo |-> <<WorkerInfo_Marshal, WorkerInfo_Size, WorkerInfo_Unmarshal>>,
    QueryJobResponse |-> <<QueryJobResponse_Marshal, QueryJobResponse_Size, QueryJobResponse_Unmarshal>>,
    CancelJobRequest |-> <<CancelJobRequest_Marshal, CancelJobRequest_Size, CancelJobRequest_Unmarshal>>,
    PauseJobRequest |-> <<PauseJobRequest_Marshal, PauseJobRequest_Size, PauseJobRequest_Unmarshal>>,
    SubmitJobResponse |-> <<SubmitJobResponse_Marshal, SubmitJobResponse_Size, SubmitJobResponse_Unmarshal>>,
    PauseJobResponse |-> <<PauseJobResponse_Marshal, PauseJobResponse_Size, PauseJobResponse_Unmarshal>>,
    CancelJobResponse |-> <<CancelJobResponse_Marshal, CancelJobResponse_Size, CancelJobResponse_Unmarshal>>,
    RegisterExecutorRequest |-> <<RegisterExecutorRequest_Marshal, RegisterExecutorRequest_Size, RegisterExecutorRequest_Unmarshal>>,
    RegisterExecutorResponse |-> <<RegisterExecutorResponse_Marshal, RegisterExecutorResponse_Size, RegisterExecutorResponse_Unmarshal>>,
    ScheduleTaskRequest |-> <<ScheduleTaskRequest_Marshal, ScheduleTaskRequest_Size, ScheduleTaskRequest_Unmarshal>>,
    ScheduleTaskResponse |-> <<ScheduleTaskResponse_Marshal, ScheduleTaskResponse_Size, ScheduleTaskResponse_Unmarshal>>,
    ExecWorkload |-> <<ExecWorkload_Marshal, ExecWorkload_Size, ExecWorkload_Unmarshal>>,
    ExecWorkloadRequest |-> <<ExecWorkloadRequest_Marshal, ExecWorkloadRequest_Size, ExecWorkloadRequest_Unmarshal>>,
    ExecWorkloadResponse |-> <<ExecWorkloadResponse_Marshal, ExecWorkloadResponse_Size, ExecWorkloadResponse_Unmarshal>>,
    PersistResourceRequest |-> <<PersistResourceRequest_Marshal, PersistResourceRequest_Size, PersistResourceRequest_Unmarshal>>,
    PersistResourceResponse |-> <<PersistResourceResponse_Marshal, PersistResourceResponse_Size, PersistResourceResponse_Unmarshal>> ]
==============================================================================
