------------------------------ MODULE Messages ------------------------------
(***************************************************************************)
(* The messages of the protocol (pkg/pb/synthetic_monitoring/checks.pb.go):*)
(* what the three methods of each message say of each of its fields, in    *)
(* the order of the code.                                                  *)
(*                                                                         *)
(* Unmarshal: the case of the switch, the field it sets, how it reads it   *)
(* and, for a message, its type. MarshalToSizedBuffer, which writes from   *)
(* the end: the field, the bytes of its tag and how it writes it. Size: the*)
(* field, what it adds besides the content, and how it measures that.      *)
(*                                                                         *)
(* The kinds: varint, bool, fixed64 and fixed32 (floating point), string   *)
(* (also []byte), strings, packed (integers), pointer, value (a message    *)
(* that is a field by value) and messages.                                 *)
(***************************************************************************)
------------------------------------------------------------------------------
(* Unmarshal                                                               *)

Unmarshal_Void == <<>>
Unmarshal_ProbeState == <<
  <<1, "Checks", "messages", "EntityRef">>, <<2, "Tenants", "messages", "EntityRef">>>>
Unmarshal_EntityRef == <<<<1, "Id", "varint">>, <<2, "LastModified", "fixed64">>>>
Unmarshal_ProbeInfo == <<
  <<1, "Version", "string">>, <<2, "Commit", "string">>, <<3, "Buildstamp", "string">>,
  <<4, "SupportsProtocolSecrets", "bool">>>>
Unmarshal_PingRequest == <<<<1, "Sequence", "varint">>>>
Unmarshal_PongResponse == <<<<1, "Sequence", "varint">>>>
Unmarshal_Status == <<<<1, "Code", "varint">>, <<2, "Message", "string">>>>
Unmarshal_RegisterProbeResult == <<
  <<1, "Probe", "value", "Probe">>, <<2, "Status", "value", "Status">>>>
Unmarshal_Probe == <<
  <<1, "Id", "varint">>, <<2, "TenantId", "varint">>, <<3, "Name", "string">>,
  <<4, "Latitude", "fixed32">>, <<5, "Longitude", "fixed32">>,
  <<6, "Labels", "messages", "Label">>, <<7, "Region", "string">>, <<8, "Public", "bool">>,
  <<9, "Online", "bool">>, <<10, "OnlineChange", "fixed64">>, <<11, "Version", "string">>,
  <<12, "Commit", "string">>, <<13, "Buildstamp", "string">>, <<14, "Deprecated", "bool">>,
  <<100, "Created", "fixed64">>, <<101, "Modified", "fixed64">>,
  <<102, "Capabilities", "pointer", "Probe_Capabilities">>>>
Unmarshal_Probe_Capabilities == <<
  <<1, "DisableScriptedChecks", "bool">>, <<2, "DisableBrowserChecks", "bool">>,
  <<3, "EnableProtocolSecrets", "bool">>>>
Unmarshal_TenantInfo == <<<<1, "Id", "varint">>>>
Unmarshal_TenantLimits == <<
  <<1, "MaxChecks", "varint">>, <<2, "MaxScriptedChecks", "varint">>,
  <<3, "MaxMetricLabels", "varint">>, <<4, "MaxLogLabels", "varint">>,
  <<5, "MaxBrowserChecks", "varint">>>>
Unmarshal_SecretStore == <<
  <<1, "Url", "string">>, <<2, "Token", "string">>, <<3, "Expiry", "fixed64">>>>
Unmarshal_Tenant == <<
  <<1, "Id", "varint">>, <<2, "OrgId", "varint">>,
  <<3, "MetricsRemote", "pointer", "RemoteInfo">>,
  <<4, "EventsRemote", "pointer", "RemoteInfo">>, <<5, "StackId", "varint">>,
  <<6, "Status", "varint">>, <<7, "Reason", "string">>,
  <<8, "Limits", "pointer", "TenantLimits">>, <<9, "CostAttributionLabels", "strings">>,
  <<10, "LabelMode", "varint">>, <<100, "Created", "fixed64">>,
  <<101, "Modified", "fixed64">>, <<102, "SecretStore", "pointer", "SecretStore">>>>
Unmarshal_RemoteInfo == <<
  <<1, "Name", "string">>, <<2, "Url", "string">>, <<3, "Username", "string">>,
  <<4, "Password", "string">>>>
Unmarshal_CheckChange == <<
  <<1, "Operation", "varint">>, <<2, "Check", "value", "Check">>>>
Unmarshal_Changes == <<
  <<1, "Checks", "messages", "CheckChange">>, <<2, "Tenants", "messages", "Tenant">>,
  <<3, "IsDeltaFirstBatch", "bool">>>>
Unmarshal_AdHocRequest == <<
  <<1, "AdHocCheck", "value", "AdHocCheck">>, <<2, "Tenant", "pointer", "Tenant">>>>
Unmarshal_Label == <<<<1, "Name", "string">>, <<2, "Value", "string">>>>
Unmarshal_CostAttributionLabel == <<<<1, "Name", "string">>, <<2, "Value", "string">>>>
Unmarshal_Check == <<
  <<1, "Id", "varint">>, <<2, "TenantId", "varint">>, <<3, "Frequency", "varint">>,
  <<4, "Offset", "varint">>, <<5, "Timeout", "varint">>, <<6, "Enabled", "bool">>,
  <<7, "Labels", "messages", "Label">>, <<8, "Settings", "value", "CheckSettings">>,
  <<9, "Probes", "packed">>, <<10, "Target", "string">>, <<11, "Job", "string">>,
  <<12, "BasicMetricsOnly", "bool">>, <<13, "AlertSensitivity", "string">>,
  <<14, "Channels", "pointer", "Channels">>, <<100, "Created", "fixed64">>,
  <<101, "Modified", "fixed64">>>>
Unmarshal_AdHocCheck == <<
  <<1, "Id", "string">>, <<2, "TenantId", "varint">>, <<3, "Timeout", "varint">>,
  <<4, "Settings", "value", "CheckSettings">>, <<5, "Probes", "packed">>,
  <<6, "Target", "string">>, <<7, "Channels", "pointer", "Channels">>>>
Unmarshal_CheckSettings == <<
  <<1, "Ping", "pointer", "PingSettings">>, <<2, "Http", "pointer", "HttpSettings">>,
  <<3, "Dns", "pointer", "DnsSettings">>, <<4, "Tcp", "pointer", "TcpSettings">>,
  <<5, "Traceroute", "pointer", "TracerouteSettings">>,
  <<6, "Scripted", "pointer", "ScriptedSettings">>,
  <<7, "Multihttp", "pointer", "MultiHttpSettings">>,
  <<8, "Grpc", "pointer", "GrpcSettings">>, <<9, "Browser", "pointer", "BrowserSettings">>>>
Unmarshal_PingSettings == <<
  <<1, "IpVersion", "varint">>, <<2, "SourceIpAddress", "string">>,
  <<3, "PayloadSize", "varint">>, <<4, "DontFragment", "bool">>,
  <<900, "PacketCount", "varint">>>>
Unmarshal_HttpSettings == <<
  <<1, "IpVersion", "varint">>, <<2, "Method", "varint">>, <<3, "Headers", "strings">>,
  <<4, "Body", "string">>, <<5, "NoFollowRedirects", "bool">>,
  <<100, "TlsConfig", "pointer", "TLSConfig">>,
  <<101, "BasicAuth", "pointer", "BasicAuth">>, <<102, "BearerToken", "string">>,
  <<103, "ProxyURL", "string">>, <<104, "Oauth2Config", "pointer", "OAuth2Config">>,
  <<105, "ProxyConnectHeaders", "strings">>, <<200, "FailIfSSL", "bool">>,
  <<201, "FailIfNotSSL", "bool">>, <<202, "ValidStatusCodes", "packed">>,
  <<203, "ValidHTTPVersions", "strings">>, <<204, "FailIfBodyMatchesRegexp", "strings">>,
  <<205, "FailIfBodyNotMatchesRegexp", "strings">>,
  <<206, "FailIfHeaderMatchesRegexp", "messages", "HeaderMatch">>,
  <<207, "FailIfHeaderNotMatchesRegexp", "messages", "HeaderMatch">>,
  <<208, "Compression", "varint">>, <<900, "CacheBustingQueryParamName", "string">>,
  <<901, "SecretManagerEnabled", "bool">>>>
Unmarshal_OAuth2Config == <<
  <<1, "ClientId", "string">>, <<2, "ClientSecret", "string">>,
  <<3, "TokenURL", "string">>, <<4, "Scopes", "strings">>,
  <<5, "EndpointParams", "messages", "Label">>, <<6, "TlsConfig", "pointer", "TLSConfig">>,
  <<7, "ProxyURL", "string">>>>
Unmarshal_HeaderMatch == <<
  <<1, "Header", "string">>, <<2, "Regexp", "string">>, <<3, "AllowMissing", "bool">>>>
Unmarshal_DNSRRValidator == <<
  <<1, "FailIfMatchesRegexp", "strings">>, <<2, "FailIfNotMatchesRegexp", "strings">>>>
Unmarshal_DnsSettings == <<
  <<1, "IpVersion", "varint">>, <<2, "SourceIpAddress", "string">>,
  <<3, "Server", "string">>, <<4, "Port", "varint">>, <<5, "RecordType", "varint">>,
  <<6, "Protocol", "varint">>, <<200, "ValidRCodes", "strings">>,
  <<201, "ValidateAnswer", "pointer", "DNSRRValidator">>,
  <<202, "ValidateAuthority", "pointer", "DNSRRValidator">>,
  <<203, "ValidateAdditional", "pointer", "DNSRRValidator">>>>
Unmarshal_TcpSettings == <<
  <<1, "IpVersion", "varint">>, <<2, "SourceIpAddress", "string">>, <<3, "Tls", "bool">>,
  <<4, "TlsConfig", "pointer", "TLSConfig">>,
  <<5, "QueryResponse", "messages", "TCPQueryResponse">>>>
Unmarshal_TCPQueryResponse == <<
  <<1, "Send", "string">>, <<2, "Expect", "string">>, <<3, "StartTLS", "bool">>>>
Unmarshal_TLSConfig == <<
  <<1, "InsecureSkipVerify", "bool">>, <<2, "CACert", "string">>,
  <<3, "ClientCert", "string">>, <<4, "ClientKey", "string">>, <<5, "ServerName", "string">>>>
Unmarshal_BasicAuth == <<<<1, "Username", "string">>, <<2, "Password", "string">>>>
Unmarshal_TracerouteSettings == <<
  <<1, "MaxHops", "varint">>, <<2, "MaxUnknownHops", "varint">>,
  <<3, "PtrLookup", "bool">>, <<4, "HopTimeout", "varint">>>>
Unmarshal_ScriptedSettings == <<<<1, "Script", "string">>>>
Unmarshal_MultiHttpSettings == <<
  <<1, "Entries", "messages", "MultiHttpEntry">>, <<2, "LogResponses", "bool">>>>
Unmarshal_MultiHttpEntry == <<
  <<1, "Request", "pointer", "MultiHttpEntryRequest">>,
  <<2, "Assertions", "messages", "MultiHttpEntryAssertion">>,
  <<3, "Variables", "messages", "MultiHttpEntryVariable">>>>
Unmarshal_HttpHeader == <<<<1, "Name", "string">>, <<2, "Value", "string">>>>
Unmarshal_QueryField == <<<<1, "Name", "string">>, <<2, "Value", "string">>>>
Unmarshal_MultiHttpEntryRequest == <<
  <<1, "Method", "varint">>, <<2, "Url", "string">>,
  <<3, "Headers", "messages", "HttpHeader">>,
  <<4, "QueryFields", "messages", "QueryField">>,
  <<5, "Body", "pointer", "HttpRequestBody">>>>
Unmarshal_HttpRequestBody == <<
  <<1, "ContentType", "string">>, <<2, "ContentEncoding", "string">>,
  <<3, "Payload", "string">>>>
Unmarshal_MultiHttpEntryAssertion == <<
  <<1, "Type", "varint">>, <<2, "Subject", "varint">>, <<3, "Condition", "varint">>,
  <<4, "Expression", "string">>, <<5, "Value", "string">>>>
Unmarshal_MultiHttpEntryVariable == <<
  <<1, "Type", "varint">>, <<2, "Name", "string">>, <<3, "Expression", "string">>,
  <<4, "Attribute", "string">>>>
Unmarshal_GrpcSettings == <<
  <<1, "IpVersion", "varint">>, <<2, "Service", "string">>, <<3, "Tls", "bool">>,
  <<4, "TlsConfig", "pointer", "TLSConfig">>>>
Unmarshal_BrowserSettings == <<<<1, "Script", "string">>>>
Unmarshal_Channels == <<<<1, "K6", "pointer", "K6Channel">>>>
Unmarshal_K6Channel == <<<<1, "Id", "string">>, <<2, "Manifest", "string">>>>
Unmarshal_RegionTelemetry == <<
  <<1, "Instance", "string">>, <<2, "RegionId", "varint">>,
  <<3, "Telemetry", "messages", "TenantTelemetry">>>>
Unmarshal_TenantTelemetry == <<
  <<1, "TenantId", "varint">>, <<2, "Telemetry", "messages", "CheckClassTelemetry">>>>
Unmarshal_CheckClassTelemetry == <<
  <<1, "CheckClass", "varint">>, <<2, "Executions", "varint">>,
  <<3, "Duration", "fixed32">>, <<4, "SampledExecutions", "varint">>,
  <<5, "CostAttributionLabels", "messages", "CostAttributionLabel">>>>
Unmarshal_PushTelemetryResponse == <<<<1, "Status", "pointer", "Status">>>>
Unmarshal_K6Version == <<<<1, "Version", "string">>>>
Unmarshal_RegisterK6VersionRequest == <<<<1, "Versions", "messages", "K6Version">>>>
Unmarshal_RegisterK6VersionResponse == <<<<1, "Status", "value", "Status">>>>

------------------------------------------------------------------------------
(* MarshalToSizedBuffer                                                    *)

Marshal_Void == <<>>
Marshal_ProbeState == <<
  <<"Tenants", <<18>>, "messages">>, <<"Checks", <<10>>, "messages">>>>
Marshal_EntityRef == <<<<"LastModified", <<17>>, "fixed64">>, <<"Id", <<8>>, "varint">>>>
Marshal_ProbeInfo == <<
  <<"SupportsProtocolSecrets", <<32>>, "bool">>, <<"Buildstamp", <<26>>, "string">>,
  <<"Commit", <<18>>, "string">>, <<"Version", <<10>>, "string">>>>
Marshal_PingRequest == <<<<"Sequence", <<8>>, "varint">>>>
Marshal_PongResponse == <<<<"Sequence", <<8>>, "varint">>>>
Marshal_Status == <<<<"Message", <<18>>, "string">>, <<"Code", <<8>>, "varint">>>>
Marshal_RegisterProbeResult == <<
  <<"Status", <<18>>, "value">>, <<"Probe", <<10>>, "value">>>>
Marshal_Probe == <<
  <<"Capabilities", <<178, 6>>, "pointer">>, <<"Modified", <<169, 6>>, "fixed64">>,
  <<"Created", <<161, 6>>, "fixed64">>, <<"Deprecated", <<112>>, "bool">>,
  <<"Buildstamp", <<106>>, "string">>, <<"Commit", <<98>>, "string">>,
  <<"Version", <<90>>, "string">>, <<"OnlineChange", <<81>>, "fixed64">>,
  <<"Online", <<72>>, "bool">>, <<"Public", <<64>>, "bool">>,
  <<"Region", <<58>>, "string">>, <<"Labels", <<50>>, "messages">>,
  <<"Longitude", <<45>>, "fixed32">>, <<"Latitude", <<37>>, "fixed32">>,
  <<"Name", <<26>>, "string">>, <<"TenantId", <<16>>, "varint">>,
  <<"Id", <<8>>, "varint">>>>
Marshal_Probe_Capabilities == <<
  <<"EnableProtocolSecrets", <<24>>, "bool">>, <<"DisableBrowserChecks", <<16>>, "bool">>,
  <<"DisableScriptedChecks", <<8>>, "bool">>>>
Marshal_TenantInfo == <<<<"Id", <<8>>, "varint">>>>
Marshal_TenantLimits == <<
  <<"MaxBrowserChecks", <<40>>, "varint">>, <<"MaxLogLabels", <<32>>, "varint">>,
  <<"MaxMetricLabels", <<24>>, "varint">>, <<"MaxScriptedChecks", <<16>>, "varint">>,
  <<"MaxChecks", <<8>>, "varint">>>>
Marshal_SecretStore == <<
  <<"Expiry", <<25>>, "fixed64">>, <<"Token", <<18>>, "string">>,
  <<"Url", <<10>>, "string">>>>
Marshal_Tenant == <<
  <<"SecretStore", <<178, 6>>, "pointer">>, <<"Modified", <<169, 6>>, "fixed64">>,
  <<"Created", <<161, 6>>, "fixed64">>, <<"LabelMode", <<80>>, "varint">>,
  <<"CostAttributionLabels", <<74>>, "strings">>, <<"Limits", <<66>>, "pointer">>,
  <<"Reason", <<58>>, "string">>, <<"Status", <<48>>, "varint">>,
  <<"StackId", <<40>>, "varint">>, <<"EventsRemote", <<34>>, "pointer">>,
  <<"MetricsRemote", <<26>>, "pointer">>, <<"OrgId", <<16>>, "varint">>,
  <<"Id", <<8>>, "varint">>>>
Marshal_RemoteInfo == <<
  <<"Password", <<34>>, "string">>, <<"Username", <<26>>, "string">>,
  <<"Url", <<18>>, "string">>, <<"Name", <<10>>, "string">>>>
Marshal_CheckChange == <<<<"Check", <<18>>, "value">>, <<"Operation", <<8>>, "varint">>>>
Marshal_Changes == <<
  <<"IsDeltaFirstBatch", <<24>>, "bool">>, <<"Tenants", <<18>>, "messages">>,
  <<"Checks", <<10>>, "messages">>>>
Marshal_AdHocRequest == <<
  <<"Tenant", <<18>>, "pointer">>, <<"AdHocCheck", <<10>>, "value">>>>
Marshal_Label == <<<<"Value", <<18>>, "string">>, <<"Name", <<10>>, "string">>>>
Marshal_CostAttributionLabel == <<
  <<"Value", <<18>>, "string">>, <<"Name", <<10>>, "string">>>>
Marshal_Check == <<
  <<"Modified", <<169, 6>>, "fixed64">>, <<"Created", <<161, 6>>, "fixed64">>,
  <<"Channels", <<114>>, "pointer">>, <<"AlertSensitivity", <<106>>, "string">>,
  <<"BasicMetricsOnly", <<96>>, "bool">>, <<"Job", <<90>>, "string">>,
  <<"Target", <<82>>, "string">>, <<"Probes", <<74>>, "packed">>,
  <<"Settings", <<66>>, "value">>, <<"Labels", <<58>>, "messages">>,
  <<"Enabled", <<48>>, "bool">>, <<"Timeout", <<40>>, "varint">>,
  <<"Offset", <<32>>, "varint">>, <<"Frequency", <<24>>, "varint">>,
  <<"TenantId", <<16>>, "varint">>, <<"Id", <<8>>, "varint">>>>
Marshal_AdHocCheck == <<
  <<"Channels", <<58>>, "pointer">>, <<"Target", <<50>>, "string">>,
  <<"Probes", <<42>>, "packed">>, <<"Settings", <<34>>, "value">>,
  <<"Timeout", <<24>>, "varint">>, <<"TenantId", <<16>>, "varint">>,
  <<"Id", <<10>>, "string">>>>
Marshal_CheckSettings == <<
  <<"Browser", <<74>>, "pointer">>, <<"Grpc", <<66>>, "pointer">>,
  <<"Multihttp", <<58>>, "pointer">>, <<"Scripted", <<50>>, "pointer">>,
  <<"Traceroute", <<42>>, "pointer">>, <<"Tcp", <<34>>, "pointer">>,
  <<"Dns", <<26>>, "pointer">>, <<"Http", <<18>>, "pointer">>,
  <<"Ping", <<10>>, "pointer">>>>
Marshal_PingSettings == <<
  <<"PacketCount", <<160, 56>>, "varint">>, <<"DontFragment", <<32>>, "bool">>,
  <<"PayloadSize", <<24>>, "varint">>, <<"SourceIpAddress", <<18>>, "string">>,
  <<"IpVersion", <<8>>, "varint">>>>
Marshal_HttpSettings == <<
  <<"SecretManagerEnabled", <<168, 56>>, "bool">>,
  <<"CacheBustingQueryParamName", <<162, 56>>, "string">>,
  <<"Compression", <<128, 13>>, "varint">>,
  <<"FailIfHeaderNotMatchesRegexp", <<250, 12>>, "messages">>,
  <<"FailIfHeaderMatchesRegexp", <<242, 12>>, "messages">>,
  <<"FailIfBodyNotMatchesRegexp", <<234, 12>>, "strings">>,
  <<"FailIfBodyMatchesRegexp", <<226, 12>>, "strings">>,
  <<"ValidHTTPVersions", <<218, 12>>, "strings">>,
  <<"ValidStatusCodes", <<210, 12>>, "packed">>, <<"FailIfNotSSL", <<200, 12>>, "bool">>,
  <<"FailIfSSL", <<192, 12>>, "bool">>, <<"ProxyConnectHeaders", <<202, 6>>, "strings">>,
  <<"Oauth2Config", <<194, 6>>, "pointer">>, <<"ProxyURL", <<186, 6>>, "string">>,
  <<"BearerToken", <<178, 6>>, "string">>, <<"BasicAuth", <<170, 6>>, "pointer">>,
  <<"TlsConfig", <<162, 6>>, "pointer">>, <<"NoFollowRedirects", <<40>>, "bool">>,
  <<"Body", <<34>>, "string">>, <<"Headers", <<26>>, "strings">>,
  <<"Method", <<16>>, "varint">>, <<"IpVersion", <<8>>, "varint">>>>
Marshal_OAuth2Config == <<
  <<"ProxyURL", <<58>>, "string">>, <<"TlsConfig", <<50>>, "pointer">>,
  <<"EndpointParams", <<42>>, "messages">>, <<"Scopes", <<34>>, "strings">>,
  <<"TokenURL", <<26>>, "string">>, <<"ClientSecret", <<18>>, "string">>,
  <<"ClientId", <<10>>, "string">>>>
Marshal_HeaderMatch == <<
  <<"AllowMissing", <<24>>, "bool">>, <<"Regexp", <<18>>, "string">>,
  <<"Header", <<10>>, "string">>>>
Marshal_DNSRRValidator == <<
  <<"FailIfNotMatchesRegexp", <<18>>, "strings">>,
  <<"FailIfMatchesRegexp", <<10>>, "strings">>>>
Marshal_DnsSettings == <<
  <<"ValidateAdditional", <<218, 12>>, "pointer">>,
  <<"ValidateAuthority", <<210, 12>>, "pointer">>,
  <<"ValidateAnswer", <<202, 12>>, "pointer">>, <<"ValidRCodes", <<194, 12>>, "strings">>,
  <<"Protocol", <<48>>, "varint">>, <<"RecordType", <<40>>, "varint">>,
  <<"Port", <<32>>, "varint">>, <<"Server", <<26>>, "string">>,
  <<"SourceIpAddress", <<18>>, "string">>, <<"IpVersion", <<8>>, "varint">>>>
Marshal_TcpSettings == <<
  <<"QueryResponse", <<42>>, "messages">>, <<"TlsConfig", <<34>>, "pointer">>,
  <<"Tls", <<24>>, "bool">>, <<"SourceIpAddress", <<18>>, "string">>,
  <<"IpVersion", <<8>>, "varint">>>>
Marshal_TCPQueryResponse == <<
  <<"StartTLS", <<24>>, "bool">>, <<"Expect", <<18>>, "string">>,
  <<"Send", <<10>>, "string">>>>
Marshal_TLSConfig == <<
  <<"ServerName", <<42>>, "string">>, <<"ClientKey", <<34>>, "string">>,
  <<"ClientCert", <<26>>, "string">>, <<"CACert", <<18>>, "string">>,
  <<"InsecureSkipVerify", <<8>>, "bool">>>>
Marshal_BasicAuth == <<
  <<"Password", <<18>>, "string">>, <<"Username", <<10>>, "string">>>>
Marshal_TracerouteSettings == <<
  <<"HopTimeout", <<32>>, "varint">>, <<"PtrLookup", <<24>>, "bool">>,
  <<"MaxUnknownHops", <<16>>, "varint">>, <<"MaxHops", <<8>>, "varint">>>>
Marshal_ScriptedSettings == <<<<"Script", <<10>>, "string">>>>
Marshal_MultiHttpSettings == <<
  <<"LogResponses", <<16>>, "bool">>, <<"Entries", <<10>>, "messages">>>>
Marshal_MultiHttpEntry == <<
  <<"Variables", <<26>>, "messages">>, <<"Assertions", <<18>>, "messages">>,
  <<"Request", <<10>>, "pointer">>>>
Marshal_HttpHeader == <<<<"Value", <<18>>, "string">>, <<"Name", <<10>>, "string">>>>
Marshal_QueryField == <<<<"Value", <<18>>, "string">>, <<"Name", <<10>>, "string">>>>
Marshal_MultiHttpEntryRequest == <<
  <<"Body", <<42>>, "pointer">>, <<"QueryFields", <<34>>, "messages">>,
  <<"Headers", <<26>>, "messages">>, <<"Url", <<18>>, "string">>,
  <<"Method", <<8>>, "varint">>>>
Marshal_HttpRequestBody == <<
  <<"Payload", <<26>>, "string">>, <<"ContentEncoding", <<18>>, "string">>,
  <<"ContentType", <<10>>, "string">>>>
Marshal_MultiHttpEntryAssertion == <<
  <<"Value", <<42>>, "string">>, <<"Expression", <<34>>, "string">>,
  <<"Condition", <<24>>, "varint">>, <<"Subject", <<16>>, "varint">>,
  <<"Type", <<8>>, "varint">>>>
Marshal_MultiHttpEntryVariable == <<
  <<"Attribute", <<34>>, "string">>, <<"Expression", <<26>>, "string">>,
  <<"Name", <<18>>, "string">>, <<"Type", <<8>>, "varint">>>>
Marshal_GrpcSettings == <<
  <<"TlsConfig", <<34>>, "pointer">>, <<"Tls", <<24>>, "bool">>,
  <<"Service", <<18>>, "string">>, <<"IpVersion", <<8>>, "varint">>>>
Marshal_BrowserSettings == <<<<"Script", <<10>>, "string">>>>
Marshal_Channels == <<<<"K6", <<10>>, "pointer">>>>
Marshal_K6Channel == <<<<"Manifest", <<18>>, "string">>, <<"Id", <<10>>, "string">>>>
Marshal_RegionTelemetry == <<
  <<"Telemetry", <<26>>, "messages">>, <<"RegionId", <<16>>, "varint">>,
  <<"Instance", <<10>>, "string">>>>
Marshal_TenantTelemetry == <<
  <<"Telemetry", <<18>>, "messages">>, <<"TenantId", <<8>>, "varint">>>>
Marshal_CheckClassTelemetry == <<
  <<"CostAttributionLabels", <<42>>, "messages">>,
  <<"SampledExecutions", <<32>>, "varint">>, <<"Duration", <<29>>, "fixed32">>,
  <<"Executions", <<16>>, "varint">>, <<"CheckClass", <<8>>, "varint">>>>
Marshal_PushTelemetryResponse == <<<<"Status", <<10>>, "pointer">>>>
Marshal_K6Version == <<<<"Version", <<10>>, "string">>>>
Marshal_RegisterK6VersionRequest == <<<<"Versions", <<10>>, "messages">>>>
Marshal_RegisterK6VersionResponse == <<<<"Status", <<10>>, "value">>>>

------------------------------------------------------------------------------
(* Size                                                                    *)

Size_Void == <<>>
Size_ProbeState == <<<<"Checks", 1, "messages">>, <<"Tenants", 1, "messages">>>>
Size_EntityRef == <<<<"Id", 1, "varint">>, <<"LastModified", 9, "fixed">>>>
Size_ProbeInfo == <<
  <<"Version", 1, "string">>, <<"Commit", 1, "string">>, <<"Buildstamp", 1, "string">>,
  <<"SupportsProtocolSecrets", 2, "bool">>>>
Size_PingRequest == <<<<"Sequence", 1, "varint">>>>
Size_PongResponse == <<<<"Sequence", 1, "varint">>>>
Size_Status == <<<<"Code", 1, "varint">>, <<"Message", 1, "string">>>>
Size_RegisterProbeResult == <<<<"Probe", 1, "value">>, <<"Status", 1, "value">>>>
Size_Probe == <<
  <<"Id", 1, "varint">>, <<"TenantId", 1, "varint">>, <<"Name", 1, "string">>,
  <<"Latitude", 5, "fixed">>, <<"Longitude", 5, "fixed">>, <<"Labels", 1, "messages">>,
  <<"Region", 1, "string">>, <<"Public", 2, "bool">>, <<"Online", 2, "bool">>,
  <<"OnlineChange", 9, "fixed">>, <<"Version", 1, "string">>, <<"Commit", 1, "string">>,
  <<"Buildstamp", 1, "string">>, <<"Deprecated", 2, "bool">>, <<"Created", 10, "fixed">>,
  <<"Modified", 10, "fixed">>, <<"Capabilities", 2, "pointer">>>>
Size_Probe_Capabilities == <<
  <<"DisableScriptedChecks", 2, "bool">>, <<"DisableBrowserChecks", 2, "bool">>,
  <<"EnableProtocolSecrets", 2, "bool">>>>
Size_TenantInfo == <<<<"Id", 1, "varint">>>>
Size_TenantLimits == <<
  <<"MaxChecks", 1, "varint">>, <<"MaxScriptedChecks", 1, "varint">>,
  <<"MaxMetricLabels", 1, "varint">>, <<"MaxLogLabels", 1, "varint">>,
  <<"MaxBrowserChecks", 1, "varint">>>>
Size_SecretStore == <<
  <<"Url", 1, "string">>, <<"Token", 1, "string">>, <<"Expiry", 9, "fixed">>>>
Size_Tenant == <<
  <<"Id", 1, "varint">>, <<"OrgId", 1, "varint">>, <<"MetricsRemote", 1, "pointer">>,
  <<"EventsRemote", 1, "pointer">>, <<"StackId", 1, "varint">>, <<"Status", 1, "varint">>,
  <<"Reason", 1, "string">>, <<"Limits", 1, "pointer">>,
  <<"CostAttributionLabels", 1, "strings">>, <<"LabelMode", 1, "varint">>,
  <<"Created", 10, "fixed">>, <<"Modified", 10, "fixed">>, <<"SecretStore", 2, "pointer">>>>
Size_RemoteInfo == <<
  <<"Name", 1, "string">>, <<"Url", 1, "string">>, <<"Username", 1, "string">>,
  <<"Password", 1, "string">>>>
Size_CheckChange == <<<<"Operation", 1, "varint">>, <<"Check", 1, "value">>>>
Size_Changes == <<
  <<"Checks", 1, "messages">>, <<"Tenants", 1, "messages">>,
  <<"IsDeltaFirstBatch", 2, "bool">>>>
Size_AdHocRequest == <<<<"AdHocCheck", 1, "value">>, <<"Tenant", 1, "pointer">>>>
Size_Label == <<<<"Name", 1, "string">>, <<"Value", 1, "string">>>>
Size_CostAttributionLabel == <<<<"Name", 1, "string">>, <<"Value", 1, "string">>>>
Size_Check == <<
  <<"Id", 1, "varint">>, <<"TenantId", 1, "varint">>, <<"Frequency", 1, "varint">>,
  <<"Offset", 1, "varint">>, <<"Timeout", 1, "varint">>, <<"Enabled", 2, "bool">>,
  <<"Labels", 1, "messages">>, <<"Settings", 1, "value">>, <<"Probes", 1, "packed">>,
  <<"Target", 1, "string">>, <<"Job", 1, "string">>, <<"BasicMetricsOnly", 2, "bool">>,
  <<"AlertSensitivity", 1, "string">>, <<"Channels", 1, "pointer">>,
  <<"Created", 10, "fixed">>, <<"Modified", 10, "fixed">>>>
Size_AdHocCheck == <<
  <<"Id", 1, "string">>, <<"TenantId", 1, "varint">>, <<"Timeout", 1, "varint">>,
  <<"Settings", 1, "value">>, <<"Probes", 1, "packed">>, <<"Target", 1, "string">>,
  <<"Channels", 1, "pointer">>>>
Size_CheckSettings == <<
  <<"Ping", 1, "pointer">>, <<"Http", 1, "pointer">>, <<"Dns", 1, "pointer">>,
  <<"Tcp", 1, "pointer">>, <<"Traceroute", 1, "pointer">>, <<"Scripted", 1, "pointer">>,
  <<"Multihttp", 1, "pointer">>, <<"Grpc", 1, "pointer">>, <<"Browser", 1, "pointer">>>>
Size_PingSettings == <<
  <<"IpVersion", 1, "varint">>, <<"SourceIpAddress", 1, "string">>,
  <<"PayloadSize", 1, "varint">>, <<"DontFragment", 2, "bool">>,
  <<"PacketCount", 2, "varint">>>>
Size_HttpSettings == <<
  <<"IpVersion", 1, "varint">>, <<"Method", 1, "varint">>, <<"Headers", 1, "strings">>,
  <<"Body", 1, "string">>, <<"NoFollowRedirects", 2, "bool">>,
  <<"TlsConfig", 2, "pointer">>, <<"BasicAuth", 2, "pointer">>,
  <<"BearerToken", 2, "string">>, <<"ProxyURL", 2, "string">>,
  <<"Oauth2Config", 2, "pointer">>, <<"ProxyConnectHeaders", 2, "strings">>,
  <<"FailIfSSL", 3, "bool">>, <<"FailIfNotSSL", 3, "bool">>,
  <<"ValidStatusCodes", 2, "packed">>, <<"ValidHTTPVersions", 2, "strings">>,
  <<"FailIfBodyMatchesRegexp", 2, "strings">>,
  <<"FailIfBodyNotMatchesRegexp", 2, "strings">>,
  <<"FailIfHeaderMatchesRegexp", 2, "messages">>,
  <<"FailIfHeaderNotMatchesRegexp", 2, "messages">>, <<"Compression", 2, "varint">>,
  <<"CacheBustingQueryParamName", 2, "string">>, <<"SecretManagerEnabled", 3, "bool">>>>
Size_OAuth2Config == <<
  <<"ClientId", 1, "string">>, <<"ClientSecret", 1, "string">>,
  <<"TokenURL", 1, "string">>, <<"Scopes", 1, "strings">>,
  <<"EndpointParams", 1, "messages">>, <<"TlsConfig", 1, "pointer">>,
  <<"ProxyURL", 1, "string">>>>
Size_HeaderMatch == <<
  <<"Header", 1, "string">>, <<"Regexp", 1, "string">>, <<"AllowMissing", 2, "bool">>>>
Size_DNSRRValidator == <<
  <<"FailIfMatchesRegexp", 1, "strings">>, <<"FailIfNotMatchesRegexp", 1, "strings">>>>
Size_DnsSettings == <<
  <<"IpVersion", 1, "varint">>, <<"SourceIpAddress", 1, "string">>,
  <<"Server", 1, "string">>, <<"Port", 1, "varint">>, <<"RecordType", 1, "varint">>,
  <<"Protocol", 1, "varint">>, <<"ValidRCodes", 2, "strings">>,
  <<"ValidateAnswer", 2, "pointer">>, <<"ValidateAuthority", 2, "pointer">>,
  <<"ValidateAdditional", 2, "pointer">>>>
Size_TcpSettings == <<
  <<"IpVersion", 1, "varint">>, <<"SourceIpAddress", 1, "string">>, <<"Tls", 2, "bool">>,
  <<"TlsConfig", 1, "pointer">>, <<"QueryResponse", 1, "messages">>>>
Size_TCPQueryResponse == <<
  <<"Send", 1, "string">>, <<"Expect", 1, "string">>, <<"StartTLS", 2, "bool">>>>
Size_TLSConfig == <<
  <<"InsecureSkipVerify", 2, "bool">>, <<"CACert", 1, "string">>,
  <<"ClientCert", 1, "string">>, <<"ClientKey", 1, "string">>,
  <<"ServerName", 1, "string">>>>
Size_BasicAuth == <<<<"Username", 1, "string">>, <<"Password", 1, "string">>>>
Size_TracerouteSettings == <<
  <<"MaxHops", 1, "varint">>, <<"MaxUnknownHops", 1, "varint">>,
  <<"PtrLookup", 2, "bool">>, <<"HopTimeout", 1, "varint">>>>
Size_ScriptedSettings == <<<<"Script", 1, "string">>>>
Size_MultiHttpSettings == <<<<"Entries", 1, "messages">>, <<"LogResponses", 2, "bool">>>>
Size_MultiHttpEntry == <<
  <<"Request", 1, "pointer">>, <<"Assertions", 1, "messages">>,
  <<"Variables", 1, "messages">>>>
Size_HttpHeader == <<<<"Name", 1, "string">>, <<"Value", 1, "string">>>>
Size_QueryField == <<<<"Name", 1, "string">>, <<"Value", 1, "string">>>>
Size_MultiHttpEntryRequest == <<
  <<"Method", 1, "varint">>, <<"Url", 1, "string">>, <<"Headers", 1, "messages">>,
  <<"QueryFields", 1, "messages">>, <<"Body", 1, "pointer">>>>
Size_HttpRequestBody == <<
  <<"ContentType", 1, "string">>, <<"ContentEncoding", 1, "string">>,
  <<"Payload", 1, "string">>>>
Size_MultiHttpEntryAssertion == <<
  <<"Type", 1, "varint">>, <<"Subject", 1, "varint">>, <<"Condition", 1, "varint">>,
  <<"Expression", 1, "string">>, <<"Value", 1, "string">>>>
Size_MultiHttpEntryVariable == <<
  <<"Type", 1, "varint">>, <<"Name", 1, "string">>, <<"Expression", 1, "string">>,
  <<"Attribute", 1, "string">>>>
Size_GrpcSettings == <<
  <<"IpVersion", 1, "varint">>, <<"Service", 1, "string">>, <<"Tls", 2, "bool">>,
  <<"TlsConfig", 1, "pointer">>>>
Size_BrowserSettings == <<<<"Script", 1, "string">>>>
Size_Channels == <<<<"K6", 1, "pointer">>>>
Size_K6Channel == <<<<"Id", 1, "string">>, <<"Manifest", 1, "string">>>>
Size_RegionTelemetry == <<
  <<"Instance", 1, "string">>, <<"RegionId", 1, "varint">>, <<"Telemetry", 1, "messages">>>>
Size_TenantTelemetry == <<<<"TenantId", 1, "varint">>, <<"Telemetry", 1, "messages">>>>
Size_CheckClassTelemetry == <<
  <<"CheckClass", 1, "varint">>, <<"Executions", 1, "varint">>, <<"Duration", 5, "fixed">>,
  <<"SampledExecutions", 1, "varint">>, <<"CostAttributionLabels", 1, "messages">>>>
Size_PushTelemetryResponse == <<<<"Status", 1, "pointer">>>>
Size_K6Version == <<<<"Version", 1, "string">>>>
Size_RegisterK6VersionRequest == <<<<"Versions", 1, "messages">>>>
Size_RegisterK6VersionResponse == <<<<"Status", 1, "value">>>>

------------------------------------------------------------------------------
(* The methods of each message                                             *)

UnmarshalOf == [
  Void |-> Unmarshal_Void, ProbeState |-> Unmarshal_ProbeState,
  EntityRef |-> Unmarshal_EntityRef, ProbeInfo |-> Unmarshal_ProbeInfo,
  PingRequest |-> Unmarshal_PingRequest, PongResponse |-> Unmarshal_PongResponse,
  Status |-> Unmarshal_Status, RegisterProbeResult |-> Unmarshal_RegisterProbeResult,
  Probe |-> Unmarshal_Probe, Probe_Capabilities |-> Unmarshal_Probe_Capabilities,
  TenantInfo |-> Unmarshal_TenantInfo, TenantLimits |-> Unmarshal_TenantLimits,
  SecretStore |-> Unmarshal_SecretStore, Tenant |-> Unmarshal_Tenant,
  RemoteInfo |-> Unmarshal_RemoteInfo, CheckChange |-> Unmarshal_CheckChange,
  Changes |-> Unmarshal_Changes, AdHocRequest |-> Unmarshal_AdHocRequest,
  Label |-> Unmarshal_Label, CostAttributionLabel |-> Unmarshal_CostAttributionLabel,
  Check |-> Unmarshal_Check, AdHocCheck |-> Unmarshal_AdHocCheck,
  CheckSettings |-> Unmarshal_CheckSettings, PingSettings |-> Unmarshal_PingSettings,
  HttpSettings |-> Unmarshal_HttpSettings, OAuth2Config |-> Unmarshal_OAuth2Config,
  HeaderMatch |-> Unmarshal_HeaderMatch, DNSRRValidator |-> Unmarshal_DNSRRValidator,
  DnsSettings |-> Unmarshal_DnsSettings, TcpSettings |-> Unmarshal_TcpSettings,
  TCPQueryResponse |-> Unmarshal_TCPQueryResponse, TLSConfig |-> Unmarshal_TLSConfig,
  BasicAuth |-> Unmarshal_BasicAuth, TracerouteSettings |-> Unmarshal_TracerouteSettings,
  ScriptedSettings |-> Unmarshal_ScriptedSettings,
  MultiHttpSettings |-> Unmarshal_MultiHttpSettings,
  MultiHttpEntry |-> Unmarshal_MultiHttpEntry, HttpHeader |-> Unmarshal_HttpHeader,
  QueryField |-> Unmarshal_QueryField,
  MultiHttpEntryRequest |-> Unmarshal_MultiHttpEntryRequest,
  HttpRequestBody |-> Unmarshal_HttpRequestBody,
  MultiHttpEntryAssertion |-> Unmarshal_MultiHttpEntryAssertion,
  MultiHttpEntryVariable |-> Unmarshal_MultiHttpEntryVariable,
  GrpcSettings |-> Unmarshal_GrpcSettings, BrowserSettings |-> Unmarshal_BrowserSettings,
  Channels |-> Unmarshal_Channels, K6Channel |-> Unmarshal_K6Channel,
  RegionTelemetry |-> Unmarshal_RegionTelemetry,
  TenantTelemetry |-> Unmarshal_TenantTelemetry,
  CheckClassTelemetry |-> Unmarshal_CheckClassTelemetry,
  PushTelemetryResponse |-> Unmarshal_PushTelemetryResponse,
  K6Version |-> Unmarshal_K6Version,
  RegisterK6VersionRequest |-> Unmarshal_RegisterK6VersionRequest,
  RegisterK6VersionResponse |-> Unmarshal_RegisterK6VersionResponse]

MarshalOf == [
  Void |-> Marshal_Void, ProbeState |-> Marshal_ProbeState,
  EntityRef |-> Marshal_EntityRef, ProbeInfo |-> Marshal_ProbeInfo,
  PingRequest |-> Marshal_PingRequest, PongResponse |-> Marshal_PongResponse,
  Status |-> Marshal_Status, RegisterProbeResult |-> Marshal_RegisterProbeResult,
  Probe |-> Marshal_Probe, Probe_Capabilities |-> Marshal_Probe_Capabilities,
  TenantInfo |-> Marshal_TenantInfo, TenantLimits |-> Marshal_TenantLimits,
  SecretStore |-> Marshal_SecretStore, Tenant |-> Marshal_Tenant,
  RemoteInfo |-> Marshal_RemoteInfo, CheckChange |-> Marshal_CheckChange,
  Changes |-> Marshal_Changes, AdHocRequest |-> Marshal_AdHocRequest,
  Label |-> Marshal_Label, CostAttributionLabel |-> Marshal_CostAttributionLabel,
  Check |-> Marshal_Check, AdHocCheck |-> Marshal_AdHocCheck,
  CheckSettings |-> Marshal_CheckSettings, PingSettings |-> Marshal_PingSettings,
  HttpSettings |-> Marshal_HttpSettings, OAuth2Config |-> Marshal_OAuth2Config,
  HeaderMatch |-> Marshal_HeaderMatch, DNSRRValidator |-> Marshal_DNSRRValidator,
  DnsSettings |-> Marshal_DnsSettings, TcpSettings |-> Marshal_TcpSettings,
  TCPQueryResponse |-> Marshal_TCPQueryResponse, TLSConfig |-> Marshal_TLSConfig,
  BasicAuth |-> Marshal_BasicAuth, TracerouteSettings |-> Marshal_TracerouteSettings,
  ScriptedSettings |-> Marshal_ScriptedSettings,
  MultiHttpSettings |-> Marshal_MultiHttpSettings,
  MultiHttpEntry |-> Marshal_MultiHttpEntry, HttpHeader |-> Marshal_HttpHeader,
  QueryField |-> Marshal_QueryField,
  MultiHttpEntryRequest |-> Marshal_MultiHttpEntryRequest,
  HttpRequestBody |-> Marshal_HttpRequestBody,
  MultiHttpEntryAssertion |-> Marshal_MultiHttpEntryAssertion,
  MultiHttpEntryVariable |-> Marshal_MultiHttpEntryVariable,
  GrpcSettings |-> Marshal_GrpcSettings, BrowserSettings |-> Marshal_BrowserSettings,
  Channels |-> Marshal_Channels, K6Channel |-> Marshal_K6Channel,
  RegionTelemetry |-> Marshal_RegionTelemetry, TenantTelemetry |-> Marshal_TenantTelemetry,
  CheckClassTelemetry |-> Marshal_CheckClassTelemetry,
  PushTelemetryResponse |-> Marshal_PushTelemetryResponse, K6Version |-> Marshal_K6Version,
  RegisterK6VersionRequest |-> Marshal_RegisterK6VersionRequest,
  RegisterK6VersionResponse |-> Marshal_RegisterK6VersionResponse]

SizeOf == [
  Void |-> Size_Void, ProbeState |-> Size_ProbeState, EntityRef |-> Size_EntityRef,
  ProbeInfo |-> Size_ProbeInfo, PingRequest |-> Size_PingRequest,
  PongResponse |-> Size_PongResponse, Status |-> Size_Status,
  RegisterProbeResult |-> Size_RegisterProbeResult, Probe |-> Size_Probe,
  Probe_Capabilities |-> Size_Probe_Capabilities, TenantInfo |-> Size_TenantInfo,
  TenantLimits |-> Size_TenantLimits, SecretStore |-> Size_SecretStore,
  Tenant |-> Size_Tenant, RemoteInfo |-> Size_RemoteInfo, CheckChange |-> Size_CheckChange,
  Changes |-> Size_Changes, AdHocRequest |-> Size_AdHocRequest, Label |-> Size_Label,
  CostAttributionLabel |-> Size_CostAttributionLabel, Check |-> Size_Check,
  AdHocCheck |-> Size_AdHocCheck, CheckSettings |-> Size_CheckSettings,
  PingSettings |-> Size_PingSettings, HttpSettings |-> Size_HttpSettings,
  OAuth2Config |-> Size_OAuth2Config, HeaderMatch |-> Size_HeaderMatch,
  DNSRRValidator |-> Size_DNSRRValidator, DnsSettings |-> Size_DnsSettings,
  TcpSettings |-> Size_TcpSettings, TCPQueryResponse |-> Size_TCPQueryResponse,
  TLSConfig |-> Size_TLSConfig, BasicAuth |-> Size_BasicAuth,
  TracerouteSettings |-> Size_TracerouteSettings,
  ScriptedSettings |-> Size_ScriptedSettings, MultiHttpSettings |-> Size_MultiHttpSettings,
  MultiHttpEntry |-> Size_MultiHttpEntry, HttpHeader |-> Size_HttpHeader,
  QueryField |-> Size_QueryField, MultiHttpEntryRequest |-> Size_MultiHttpEntryRequest,
  HttpRequestBody |-> Size_HttpRequestBody,
  MultiHttpEntryAssertion |-> Size_MultiHttpEntryAssertion,
  MultiHttpEntryVariable |-> Size_MultiHttpEntryVariable,
  GrpcSettings |-> Size_GrpcSettings, BrowserSettings |-> Size_BrowserSettings,
  Channels |-> Size_Channels, K6Channel |-> Size_K6Channel,
  RegionTelemetry |-> Size_RegionTelemetry, TenantTelemetry |-> Size_TenantTelemetry,
  CheckClassTelemetry |-> Size_CheckClassTelemetry,
  PushTelemetryResponse |-> Size_PushTelemetryResponse, K6Version |-> Size_K6Version,
  RegisterK6VersionRequest |-> Size_RegisterK6VersionRequest,
  RegisterK6VersionResponse |-> Size_RegisterK6VersionResponse]
==============================================================================
