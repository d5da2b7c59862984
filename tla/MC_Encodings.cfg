INIT Init
NEXT Next
INVARIANTS
    WireBlobMatchesSpec
    DsaSignatureRoundTrip
    RsaKeyFieldsRoundTrip
    DsaKeyFieldsRoundTrip
